---- MODULE Spec2Model ----
(***************************************************************************)
(* Model of the nutri-fit backend: the Users and WorkoutDays resources     *)
(* (latest, repository-backed iteration of UsersService and                *)
(* WorkoutDaysService).                                                    *)
(*                                                                         *)
(* Strings are sequences of one-character strings, so that trim() and      *)
(* toLowerCase() are computed and not assumed.  A DTO is a record holding  *)
(* exactly the supplied fields ("f" \in DOMAIN dto is "dto.f !==           *)
(* undefined"); a stored row holds a nullable column only when it is set.  *)
(* Every service method is an operator from the stored tables and the      *)
(* request to a result record                                              *)
(*     [out, msg, ret, users | workoutDays]                                *)
(* (outcome, interpolated part of the error message, returned rows, table  *)
(* after the call); the actions store the table the operator leaves.       *)
(*                                                                         *)
(* Spec and SpecUsers run every handler from its first statement to its    *)
(* last without another request in between.  SpecRace runs create requests *)
(* one await at a time: requests holds each create request in flight with  *)
(* the await it has reached (pc) and its outcome (out).                    *)
(*                                                                         *)
(* now is the reading of the clock and userUpdatedAt the updatedAt column  *)
(* of the users table, kept beside the rows.  Every save stamps the rows   *)
(* it writes with now.  Only SpecClock lets the clock advance; in the      *)
(* other specifications every request is served within one clock tick.     *)
(***************************************************************************)
EXTENDS Integers, Sequences, FiniteSets, TLC

VARIABLES users, workoutDays, requests, now, userUpdatedAt

vars == <<users, workoutDays, requests, now, userUpdatedAt>>

(***************************************************************************)
(* Bounds                                                                  *)
(***************************************************************************)
MaxUsers == 2

MaxWorkoutDays == 2

\* create requests issued in one run of SpecRace
MaxRequests == 3
\* clock ticks in one run of SpecClock
MaxTime == 2

(***************************************************************************)
(* Strings                                                                 *)
(***************************************************************************)
UpperLetters == <<"A","B","C","D","E","F","G","H","I","J","K","L","M","N","O","P","Q","R","S","T","U","V","W","X","Y","Z">>

LowerLetters == <<"a","b","c","d","e","f","g","h","i","j","k","l","m","n","o","p","q","r","s","t","u","v","w","x","y","z">>

WhiteSpace == {" ", "\t", "\n"}

LowerChar(c) ==
    IF \E i \in 1..Len(UpperLetters) : UpperLetters[i] = c
    THEN LowerLetters[CHOOSE i \in 1..Len(UpperLetters) : UpperLetters[i] = c]
    ELSE c

\* String.prototype.toLowerCase
toLowerCase(s) == [i \in 1..Len(s) |-> LowerChar(s[i])]

RECURSIVE trimStart(_)
trimStart(s) ==
    IF s # <<>> /\ Head(s) \in WhiteSpace THEN trimStart(Tail(s)) ELSE s

RECURSIVE trimEnd(_)
trimEnd(s) ==
    IF s # <<>> /\ s[Len(s)] \in WhiteSpace
    THEN trimEnd(SubSeq(s, 1, Len(s) - 1))
    ELSE s

\* String.prototype.trim
trim(s) == trimEnd(trimStart(s))

Digits == <<"0", "1", "2", "3", "4", "5", "6", "7", "8", "9">>

IsDigit(c) == \E i \in 1..Len(Digits) : Digits[i] = c

DigitValue(c) == (CHOOSE i \in 1..Len(Digits) : Digits[i] = c) - 1

\* the longest prefix of s made of decimal digits
RECURSIVE DigitsPrefix(_)
DigitsPrefix(s) ==
    IF s # <<>> /\ IsDigit(Head(s))
    THEN <<Head(s)>> \o DigitsPrefix(Tail(s))
    ELSE <<>>

\* the number a sequence of decimal digits denotes
RECURSIVE DecimalValue(_)
DecimalValue(d) ==
    IF d = <<>> THEN 0
    ELSE 10 * DecimalValue(SubSeq(d, 1, Len(d) - 1)) + DigitValue(d[Len(d)])

\* the SQL operator LIKE of the default (SQLite) storage: % matches any run
\* of characters, _ matches any one character, letters match in either case
RECURSIVE LikeMatch(_, _)
LikeMatch(pattern, s) ==
    IF pattern = <<>> THEN s = <<>>
    ELSE IF Head(pattern) = "%"
    THEN \/ LikeMatch(Tail(pattern), s)
         \/ s # <<>> /\ LikeMatch(pattern, Tail(s))
    ELSE IF Head(pattern) = "_"
    THEN s # <<>> /\ LikeMatch(Tail(pattern), Tail(s))
    ELSE /\ s # <<>>
         /\ LowerChar(Head(pattern)) = LowerChar(Head(s))
         /\ LikeMatch(Tail(pattern), Tail(s))

\* typeorm's Like(`%${value}%`) applied to a column value
Like(value, s) == LikeMatch(<<"%">> \o value \o <<"%">>, s)

(***************************************************************************)
(* Enumerations and outcomes                                               *)
(***************************************************************************)
UserRole == {"admin", "trainer", "nutritionist", "user", "guest"}

UserStatus == {"active", "inactive", "pending", "suspended", "banned"}

\* parseInt of a non-numeric path parameter
NaN == -1

isNaN(id) == id = NaN

\* parseInt(string) as the controllers call it, on unsigned decimal input:
\* leading white space is skipped, the leading digits are read and whatever
\* follows them is ignored; NaN when there is no leading digit
parseInt(s) ==
    LET d == DigitsPrefix(trimStart(s))
    IN  IF d = <<>> THEN NaN ELSE DecimalValue(d)

Ok == "Ok"

BadRequest == "BadRequest"

NotFound == "NotFound"

Conflict == "Conflict"

\* QueryFailedError raised by the storage layer (rendered as 500)
QueryFailed == "QueryFailed"

(***************************************************************************)
(* Rows                                                                    *)
(***************************************************************************)
\* the fields a request supplies, laid over a row
Assign(row, fields) ==
    [f \in DOMAIN row \cup DOMAIN fields |->
        IF f \in DOMAIN fields THEN fields[f] ELSE row[f]]

\* "if (dto.f)" on a string field: supplied and not the empty string
TruthyString(dto, f) == f \in DOMAIN dto /\ dto[f] # <<>>

\* "if (dto.f)" on a numeric field: supplied and not 0
TruthyNumber(dto, f) == f \in DOMAIN dto /\ dto[f] # 0

\* variant: the key of the last row is handed out again
GeneratedId_Reused(table) ==
    IF DOMAIN table = {} THEN 1
    ELSE CHOOSE i \in DOMAIN table : \A j \in DOMAIN table : j <= i

\* @PrimaryGeneratedColumn(): the next auto-incremented key of a table
GeneratedId(table) ==
    IF DOMAIN table = {} THEN 1
    ELSE (CHOOSE i \in DOMAIN table : \A j \in DOMAIN table : j <= i) + 1

\* the in-memory UsersService: the list starts with the four mock users and
\* no method takes an element out of it
InMemoryUserIds == {1, 2, 3, 4}

\* const newId = Math.max(...this.users.map((user) => user.id)) + 1, for a
\* non-empty list
InMemoryNewId(ids) ==
    (CHOOSE i \in ids : \A j \in ids : j <= i) + 1

\* the arrangements of a set of keys in a sequence
Perms(S) ==
    {s \in [1..Cardinality(S) -> S] :
        \A i, j \in 1..Cardinality(S) : s[i] = s[j] => i = j}

\* the set of elements of a sequence
Range(s) == {s[i] : i \in 1..Len(s)}

\* repository.save of a row under its primary key (insert or update)
SaveRow(table, row) ==
    [i \in DOMAIN table \cup {row.id} |-> IF i = row.id THEN row ELSE table[i]]

\* variant: a row keeps the updatedAt it was inserted with
SavedUpdatedAt_Kept(table, saved, updatedAt, clock) ==
    [i \in DOMAIN saved |->
        IF i \in DOMAIN table THEN updatedAt[i] ELSE clock]

\* @UpdateDateColumn() updatedAt: the column after the table went from table
\* to saved; an inserted row and a row written with a change carry the
\* clock, the other rows keep their value
SavedUpdatedAt(table, saved, updatedAt, clock) ==
    [i \in DOMAIN saved |->
        IF i \in DOMAIN table /\ saved[i] = table[i]
        THEN updatedAt[i] ELSE clock]

(***************************************************************************)
(* Users: entity and repository                                            *)
(***************************************************************************)
\* the nullable columns of UserEntity that a create or update request sets
UserOptionalColumns == {"avatar", "bio", "phone", "location", "specialties"}

\* UserEntity.isUserActive
isUserActive(user) == user.status = "active"

\* the defaults the UserEntity constructor gives role and status
UserEntityDefaults == [role |-> "user", status |-> "active"]

\* UserEntity.updateTimestamp: this.updatedAt = new Date()
UserEntity_updateTimestamp(clock) == clock

\* UserEntity.activate, deactivate, suspend and ban: the status is assigned
\* and updateTimestamp is called; the result is the entity's row and its
\* updatedAt
UserEntity_activate(user, clock) ==
    [user |-> [user EXCEPT !.status = "active"],
     updatedAt |-> UserEntity_updateTimestamp(clock)]

UserEntity_deactivate(user, clock) ==
    [user |-> [user EXCEPT !.status = "inactive"],
     updatedAt |-> UserEntity_updateTimestamp(clock)]

UserEntity_suspend(user, clock) ==
    [user |-> [user EXCEPT !.status = "suspended"],
     updatedAt |-> UserEntity_updateTimestamp(clock)]

UserEntity_ban(user, clock) ==
    [user |-> [user EXCEPT !.status = "banned"],
     updatedAt |-> UserEntity_updateTimestamp(clock)]

\* variant: the email column carries no unique index
EmailUniqueViolated_NoIndex(us, row) == FALSE

\* @Column({ unique: true }) on email: writing row is rejected when another
\* row already holds the same email
EmailUniqueViolated(us, row) ==
    \E i \in DOMAIN us : i # row.id /\ us[i].email = row.email

\* userRepository.findOne({ where: { email } }): the ids of the rows whose
\* stored email is the given string
FindUserByEmail(us, email) == {i \in DOMAIN us : us[i].email = email}

\* the where conditions UsersService.search builds from its filters, applied
\* to a row (a NULL location matches no pattern)
UserMatches(user, dto) ==
    /\ TruthyString(dto, "name") => Like(dto.name, user.name)
    /\ TruthyString(dto, "email") => Like(dto.email, user.email)
    /\ "role" \in DOMAIN dto => user.role = dto.role
    /\ "status" \in DOMAIN dto => user.status = dto.status
    /\ TruthyString(dto, "location")
          => ("location" \in DOMAIN user /\ Like(dto.location, user.location))

\* UsersService.mapToResponseDto
mapToResponseDto(user) ==
    [f \in DOMAIN user \cap
           {"id", "name", "email", "role", "avatar", "status", "bio",
            "phone", "location", "specialties", "stats"} |-> user[f]]

(***************************************************************************)
(* UsersService                                                            *)
(***************************************************************************)
\* variant: only the soft-deleted users are left out
UsersService_findAll_NotInactive(us) ==
    LET found == {i \in DOMAIN us : us[i].status # "inactive"}
    IN  [out |-> Ok, msg |-> <<>>,
         rets |-> { [k \in DOMAIN s |-> mapToResponseDto(us[s[k]])] :
                       s \in {t \in Perms(found) :
                                 \A i, j \in DOMAIN t : i < j => t[i] < t[j]} },
         users |-> us]

\* userRepository.find({ where: { status: ACTIVE }, order: { id: 'ASC' } });
\* rets holds the arrays the storage may answer with
UsersService_findAll(us) ==
    LET found == {i \in DOMAIN us : us[i].status = "active"}
    IN  [out |-> Ok, msg |-> <<>>,
         rets |-> { [k \in DOMAIN s |-> mapToResponseDto(us[s[k]])] :
                       s \in {t \in Perms(found) :
                                 \A i, j \in DOMAIN t : i < j => t[i] < t[j]} },
         users |-> us]

\* userRepository.find({ where, order: { createdAt: 'DESC' } }); createdAt
\* grows with the key but rows created in the same clock tick tie and the
\* model keeps no clock, so every arrangement of the found rows is admitted
UsersService_search(us, dto) ==
    LET found == {i \in DOMAIN us : UserMatches(us[i], dto)}
    IN  [out |-> Ok, msg |-> <<>>,
         rets |-> { [k \in DOMAIN s |-> mapToResponseDto(us[s[k]])] :
                       s \in Perms(found) },
         users |-> us]

UsersService_findOne(us, id) ==
    IF isNaN(id)
    THEN [out |-> BadRequest, msg |-> <<>>, ret |-> <<>>, users |-> us]
    ELSE IF id \notin DOMAIN us
    THEN [out |-> NotFound, msg |-> <<id>>, ret |-> <<>>, users |-> us]
    ELSE [out |-> Ok, msg |-> <<>>, ret |-> <<mapToResponseDto(us[id])>>,
          users |-> us]

\* variant: the email is stored trimmed but in the case it was given
NewUserRow_KeepsCase(us, dto) ==
    Assign(UserEntityDefaults,
           Assign([f \in DOMAIN dto \cap (UserOptionalColumns \cup {"role"})
                      |-> dto[f]],
                  [id     |-> GeneratedId(us),
                   name   |-> trim(dto.name),
                   email  |-> trim(dto.email),
                   status |-> "active"]))

\* the row UsersService.create hands to userRepository.save
NewUserRow(us, dto) ==
    Assign(UserEntityDefaults,
           Assign([f \in DOMAIN dto \cap (UserOptionalColumns \cup {"role"})
                      |-> dto[f]],
                  [id     |-> GeneratedId(us),
                   name   |-> trim(dto.name),
                   email  |-> trim(toLowerCase(dto.email)),
                   status |-> "active"]))

\* variant: the save looks the stored email up again and answers Conflict
UsersService_create_save_Rechecks(us, dto) ==
    LET user == NewUserRow(us, dto)
    IN  IF FindUserByEmail(us, user.email) # {}
        THEN [out |-> Conflict, msg |-> dto.email, ret |-> <<>>, users |-> us]
        ELSE [out |-> Ok, msg |-> <<>>, ret |-> <<mapToResponseDto(user)>>,
              users |-> SaveRow(us, user)]

\* UsersService.create from userRepository.create on: the row is built and
\* saved against the table as it is at that moment
UsersService_create_save(us, dto) ==
    LET user == NewUserRow(us, dto)
    IN  IF EmailUniqueViolated(us, user)
        THEN [out |-> QueryFailed, msg |-> <<>>, ret |-> <<>>, users |-> us]
        ELSE [out |-> Ok, msg |-> <<>>, ret |-> <<mapToResponseDto(user)>>,
              users |-> SaveRow(us, user)]

UsersService_create(us, dto) ==
    IF FindUserByEmail(us, dto.email) # {}
    THEN [out |-> Conflict, msg |-> dto.email, ret |-> <<>>, users |-> us]
    ELSE UsersService_create_save(us, dto)

\* variant: the status is not among the columns update writes
UpdatedUserRow_KeepsStatus(user, dto) ==
    Assign(user,
           Assign([f \in DOMAIN dto \cap (UserOptionalColumns \cup {"role"})
                      |-> dto[f]],
                  Assign(IF TruthyString(dto, "name")
                         THEN [name |-> trim(dto.name)] ELSE <<>>,
                         IF TruthyString(dto, "email")
                         THEN [email |-> trim(toLowerCase(dto.email))]
                         ELSE <<>>)))

\* the assignments "if (dto.f ...) user.f = ..." of UsersService.update
UpdatedUserRow(user, dto) ==
    Assign(user,
           Assign([f \in DOMAIN dto \cap
                         (UserOptionalColumns \cup {"role", "status"})
                      |-> dto[f]],
                  Assign(IF TruthyString(dto, "name")
                         THEN [name |-> trim(dto.name)] ELSE <<>>,
                         IF TruthyString(dto, "email")
                         THEN [email |-> trim(toLowerCase(dto.email))]
                         ELSE <<>>)))

UsersService_update(us, id, dto) ==
    IF isNaN(id)
    THEN [out |-> BadRequest, msg |-> <<>>, ret |-> <<>>, users |-> us]
    ELSE IF id \notin DOMAIN us
    THEN [out |-> NotFound, msg |-> <<id>>, ret |-> <<>>, users |-> us]
    ELSE IF /\ TruthyString(dto, "email")
            /\ \E i \in FindUserByEmail(us, dto.email) : i # id
    THEN [out |-> Conflict, msg |-> dto.email, ret |-> <<>>, users |-> us]
    ELSE LET user == UpdatedUserRow(us[id], dto)
         IN  IF EmailUniqueViolated(us, user)
             THEN [out |-> QueryFailed, msg |-> <<>>, ret |-> <<>>,
                   users |-> us]
             ELSE [out |-> Ok, msg |-> <<>>,
                   ret |-> <<mapToResponseDto(user)>>,
                   users |-> SaveRow(us, user)]

\* variant: removing an already inactive user succeeds again
UsersService_remove_Idempotent(us, id) ==
    IF isNaN(id)
    THEN [out |-> BadRequest, msg |-> <<>>, ret |-> <<>>, users |-> us]
    ELSE IF id \notin DOMAIN us
    THEN [out |-> NotFound, msg |-> <<id>>, ret |-> <<>>, users |-> us]
    ELSE LET user == Assign(us[id], [status |-> "inactive"])
         IN  [out |-> Ok, msg |-> <<>>, ret |-> <<mapToResponseDto(user)>>,
              users |-> SaveRow(us, user)]

UsersService_remove(us, id) ==
    IF isNaN(id)
    THEN [out |-> BadRequest, msg |-> <<>>, ret |-> <<>>, users |-> us]
    ELSE IF id \notin DOMAIN us
    THEN [out |-> NotFound, msg |-> <<id>>, ret |-> <<>>, users |-> us]
    ELSE IF us[id].status = "inactive"
    THEN [out |-> Conflict, msg |-> <<id>>, ret |-> <<>>, users |-> us]
    ELSE LET user == Assign(us[id], [status |-> "inactive"])
         IN  [out |-> Ok, msg |-> <<>>, ret |-> <<mapToResponseDto(user)>>,
              users |-> SaveRow(us, user)]

(***************************************************************************)
(* WorkoutDays: entity and repository                                      *)
(***************************************************************************)
DayNames == <<"Lunes", "Martes", "Miercoles", "Jueves", "Viernes", "Sabado", "Domingo">>

InvalidDay == "Dia invalido"

\* WorkoutDayEntity.getDayName: the array literal of the method, indexed from
\* 0 as in the source, and days[this.dayOfWeek] || 'Dia invalido': an index
\* outside the array reads undefined, and undefined and '' are both falsy
WorkoutDayEntity_days ==
    <<"", "Lunes", "Martes", "Miercoles", "Jueves", "Viernes", "Sabado",
      "Domingo">>

WorkoutDayEntity_getDayName(workoutDay) ==
    LET days == WorkoutDayEntity_days
        element == IF workoutDay.dayOfWeek \in 0..(Len(days) - 1)
                   THEN days[workoutDay.dayOfWeek + 1]
                   ELSE "undefined"
    IN  IF element \in {"", "undefined"} THEN "Dia invalido" ELSE element

\* variant: the array is read from its first element on
getDayName_ZeroBased(dayNumber) ==
    IF dayNumber \in 0..(Len(DayNames) - 1)
    THEN DayNames[dayNumber + 1] ELSE InvalidDay

\* WorkoutDaysService.getDayName: days[dayNumber] || 'Dia invalido', where
\* days[0] is the empty string
getDayName(dayNumber) ==
    IF dayNumber \in 1..Len(DayNames) THEN DayNames[dayNumber] ELSE InvalidDay

\* the defaults WorkoutDaysService.create gives omitted intensity and type
DefaultIntensityLevel == 3

DefaultWorkoutType == "Fuerza"

\* variant: any user row with that id, whatever its status
validateUserExists_AnyStatus(us, userId) == userId \in DOMAIN us

\* WorkoutDaysService.validateUserExists: a user row with that id that is
\* active (UserEntity.isUserActive)
validateUserExists(us, userId) ==
    \E i \in DOMAIN us : i = userId /\ isUserActive(us[i])

\* variant: the search does not filter on isActive
FindActiveWorkoutDays_AnyState(wds, userId, dayOfWeek) ==
    {i \in DOMAIN wds : /\ wds[i].userId = userId
                        /\ wds[i].dayOfWeek = dayOfWeek}

\* workoutDayRepository.findOne({ where: { userId, dayOfWeek, isActive: true } }):
\* the ids of the matching rows
FindActiveWorkoutDays(wds, userId, dayOfWeek) ==
    {i \in DOMAIN wds : /\ wds[i].userId = userId
                        /\ wds[i].dayOfWeek = dayOfWeek
                        /\ wds[i].isActive}

\* the where conditions WorkoutDaysService.search builds from its filters,
\* applied to a row
WorkoutDayMatches(workoutDay, dto) ==
    /\ TruthyString(dto, "name") => Like(dto.name, workoutDay.name)
    /\ \A f \in {"dayOfWeek", "durationMinutes", "intensityLevel", "userId"} :
           TruthyNumber(dto, f) => workoutDay[f] = dto[f]
    /\ ("workoutType" \in DOMAIN dto /\ dto.workoutType # "")
          => workoutDay.workoutType = dto.workoutType
    /\ "isActive" \in DOMAIN dto => workoutDay.isActive = dto.isActive

\* order: { dayOfWeek: 'ASC', ... }: the arrangements of the found rows by
\* ascending day; the order among rows of one day is the storage's choice
\* (a second key createdAt ties within a clock tick, and the model keeps no
\* clock)
ByDayOfWeek(wds, found) ==
    { [k \in DOMAIN s |-> wds[s[k]]] :
         s \in {t \in Perms(found) :
                   \A i, j \in DOMAIN t :
                       i < j => wds[t[i]].dayOfWeek <= wds[t[j]].dayOfWeek} }

(***************************************************************************)
(* WorkoutDaysService                                                      *)
(***************************************************************************)
\* variant: the list is not restricted to the active rows
WorkoutDaysService_findAll_Unfiltered(wds) ==
    [out |-> Ok, msg |-> <<>>, rets |-> ByDayOfWeek(wds, DOMAIN wds),
     workoutDays |-> wds]

\* workoutDayRepository.find({ where: { isActive: true },
\*                            order: { dayOfWeek: 'ASC', createdAt: 'DESC' } })
WorkoutDaysService_findAll(wds) ==
    [out |-> Ok, msg |-> <<>>,
     rets |-> ByDayOfWeek(wds, {i \in DOMAIN wds : wds[i].isActive}),
     workoutDays |-> wds]

\* variant: the rows of the user are listed whatever their isActive
WorkoutDaysService_findByUserId_AnyState(us, wds, userId) ==
    IF ~validateUserExists(us, userId)
    THEN [out |-> NotFound, msg |-> <<userId>>, rets |-> {},
          workoutDays |-> wds]
    ELSE [out |-> Ok, msg |-> <<>>,
          rets |-> ByDayOfWeek(wds, {i \in DOMAIN wds :
                                        wds[i].userId = userId}),
          workoutDays |-> wds]

WorkoutDaysService_findByUserId(us, wds, userId) ==
    IF ~validateUserExists(us, userId)
    THEN [out |-> NotFound, msg |-> <<userId>>, rets |-> {},
          workoutDays |-> wds]
    ELSE [out |-> Ok, msg |-> <<>>,
          rets |-> ByDayOfWeek(wds, {i \in DOMAIN wds :
                                        /\ wds[i].userId = userId
                                        /\ wds[i].isActive}),
          workoutDays |-> wds]

WorkoutDaysService_search(wds, dto) ==
    [out |-> Ok, msg |-> <<>>,
     rets |-> ByDayOfWeek(wds, {i \in DOMAIN wds :
                                   WorkoutDayMatches(wds[i], dto)}),
     workoutDays |-> wds]

WorkoutDaysService_findOne(wds, id) ==
    IF isNaN(id)
    THEN [out |-> BadRequest, msg |-> <<>>, ret |-> <<>>, workoutDays |-> wds]
    ELSE IF id \notin DOMAIN wds
    THEN [out |-> NotFound, msg |-> <<id>>, ret |-> <<>>, workoutDays |-> wds]
    ELSE [out |-> Ok, msg |-> <<>>, ret |-> <<wds[id]>>, workoutDays |-> wds]

\* variant: the defaults are stored whatever the request supplies
NewWorkoutDayRow_AlwaysDefaults(wds, dto) ==
    Assign(IF "description" \in DOMAIN dto
           THEN [description |-> trim(dto.description)] ELSE <<>>,
           [id              |-> GeneratedId(wds),
            name            |-> trim(dto.name),
            dayOfWeek       |-> dto.dayOfWeek,
            durationMinutes |-> dto.durationMinutes,
            intensityLevel  |-> DefaultIntensityLevel,
            workoutType     |-> DefaultWorkoutType,
            userId          |-> dto.userId,
            isActive        |-> TRUE])

\* the row WorkoutDaysService.create hands to workoutDayRepository.save
NewWorkoutDayRow(wds, dto) ==
    Assign(IF "description" \in DOMAIN dto
           THEN [description |-> trim(dto.description)] ELSE <<>>,
           [id              |-> GeneratedId(wds),
            name            |-> trim(dto.name),
            dayOfWeek       |-> dto.dayOfWeek,
            durationMinutes |-> dto.durationMinutes,
            intensityLevel  |-> IF "intensityLevel" \in DOMAIN dto
                                THEN dto.intensityLevel
                                ELSE DefaultIntensityLevel,
            workoutType     |-> IF "workoutType" \in DOMAIN dto
                                THEN dto.workoutType
                                ELSE DefaultWorkoutType,
            userId          |-> dto.userId,
            isActive        |-> TRUE])

\* variant: the table carries a unique index over the active rows of a
\* user and day
WorkoutDaysService_create_save_UniqueIndex(wds, dto) ==
    LET workoutDay == NewWorkoutDayRow(wds, dto)
    IN  IF FindActiveWorkoutDays(wds, dto.userId, dto.dayOfWeek) # {}
        THEN [out |-> QueryFailed, msg |-> <<>>, ret |-> <<>>,
              workoutDays |-> wds]
        ELSE [out |-> Ok, msg |-> <<>>, ret |-> <<workoutDay>>,
              workoutDays |-> SaveRow(wds, workoutDay)]

\* WorkoutDaysService.create from workoutDayRepository.create on: the row is
\* built and saved; WorkoutDayEntity declares no unique column
WorkoutDaysService_create_save(wds, dto) ==
    LET workoutDay == NewWorkoutDayRow(wds, dto)
    IN  [out |-> Ok, msg |-> <<>>, ret |-> <<workoutDay>>,
         workoutDays |-> SaveRow(wds, workoutDay)]

\* variant: the day is looked up before the owner is validated
WorkoutDaysService_create_DayFirst(us, wds, dto) ==
    IF FindActiveWorkoutDays(wds, dto.userId, dto.dayOfWeek) # {}
    THEN [out |-> Conflict, msg |-> getDayName(dto.dayOfWeek), ret |-> <<>>,
          workoutDays |-> wds]
    ELSE IF ~validateUserExists(us, dto.userId)
    THEN [out |-> NotFound, msg |-> <<dto.userId>>, ret |-> <<>>,
          workoutDays |-> wds]
    ELSE WorkoutDaysService_create_save(wds, dto)

WorkoutDaysService_create(us, wds, dto) ==
    IF ~validateUserExists(us, dto.userId)
    THEN [out |-> NotFound, msg |-> <<dto.userId>>, ret |-> <<>>,
          workoutDays |-> wds]
    ELSE IF FindActiveWorkoutDays(wds, dto.userId, dto.dayOfWeek) # {}
    THEN [out |-> Conflict, msg |-> getDayName(dto.dayOfWeek), ret |-> <<>>,
          workoutDays |-> wds]
    ELSE WorkoutDaysService_create_save(wds, dto)

\* variant: the check runs whenever a dayOfWeek is supplied
ChangesDayOfWeek_WheneverSupplied(workoutDay, dto) ==
    TruthyNumber(dto, "dayOfWeek")

\* "dto.dayOfWeek && dto.dayOfWeek !== workoutDay.dayOfWeek": the request
\* moves the row to another day
ChangesDayOfWeek(workoutDay, dto) ==
    TruthyNumber(dto, "dayOfWeek") /\ dto.dayOfWeek # workoutDay.dayOfWeek

\* variant: an omitted intensity falls back to the default, as in create
UpdatedWorkoutDayRow_DefaultsIntensity(workoutDay, dto) ==
    Assign(workoutDay,
           Assign([f \in DOMAIN dto \cap
                         {"dayOfWeek", "durationMinutes", "intensityLevel",
                          "workoutType", "isActive"} |-> dto[f]],
                  Assign(IF TruthyString(dto, "name")
                         THEN [name |-> trim(dto.name)] ELSE <<>>,
                         Assign(IF "description" \in DOMAIN dto
                                THEN [description |-> trim(dto.description)]
                                ELSE <<>>,
                                IF "intensityLevel" \in DOMAIN dto
                                THEN <<>>
                                ELSE [intensityLevel |->
                                          DefaultIntensityLevel]))))

\* the assignments "if (dto.f ...) workoutDay.f = ..." of
\* WorkoutDaysService.update
UpdatedWorkoutDayRow(workoutDay, dto) ==
    Assign(workoutDay,
           Assign([f \in DOMAIN dto \cap
                         {"dayOfWeek", "durationMinutes", "intensityLevel",
                          "workoutType", "isActive"} |-> dto[f]],
                  Assign(IF TruthyString(dto, "name")
                         THEN [name |-> trim(dto.name)] ELSE <<>>,
                         IF "description" \in DOMAIN dto
                         THEN [description |-> trim(dto.description)]
                         ELSE <<>>)))

\* variant: the fields other than the day are saved before the day is
\* checked
WorkoutDaysService_update_SavesFirst(wds, id, dto) ==
    IF isNaN(id)
    THEN [out |-> BadRequest, msg |-> <<>>, ret |-> <<>>, workoutDays |-> wds]
    ELSE IF id \notin DOMAIN wds
    THEN [out |-> NotFound, msg |-> <<id>>, ret |-> <<>>, workoutDays |-> wds]
    ELSE IF /\ ChangesDayOfWeek(wds[id], dto)
            /\ \E i \in FindActiveWorkoutDays(wds, wds[id].userId,
                                              dto.dayOfWeek) : i # id
    THEN [out |-> Conflict, msg |-> getDayName(dto.dayOfWeek), ret |-> <<>>,
          workoutDays |->
              SaveRow(wds, UpdatedWorkoutDayRow(
                               wds[id],
                               [f \in DOMAIN dto \ {"dayOfWeek"} |-> dto[f]]))]
    ELSE LET workoutDay == UpdatedWorkoutDayRow(wds[id], dto)
         IN  [out |-> Ok, msg |-> <<>>, ret |-> <<workoutDay>>,
              workoutDays |-> SaveRow(wds, workoutDay)]

WorkoutDaysService_update(wds, id, dto) ==
    IF isNaN(id)
    THEN [out |-> BadRequest, msg |-> <<>>, ret |-> <<>>, workoutDays |-> wds]
    ELSE IF id \notin DOMAIN wds
    THEN [out |-> NotFound, msg |-> <<id>>, ret |-> <<>>, workoutDays |-> wds]
    ELSE IF /\ ChangesDayOfWeek(wds[id], dto)
            /\ \E i \in FindActiveWorkoutDays(wds, wds[id].userId,
                                              dto.dayOfWeek) : i # id
    THEN [out |-> Conflict, msg |-> getDayName(dto.dayOfWeek), ret |-> <<>>,
          workoutDays |-> wds]
    ELSE LET workoutDay == UpdatedWorkoutDayRow(wds[id], dto)
         IN  [out |-> Ok, msg |-> <<>>, ret |-> <<workoutDay>>,
              workoutDays |-> SaveRow(wds, workoutDay)]

\* variant: the row is deleted from the table
WorkoutDaysService_remove_Physical(wds, id) ==
    IF isNaN(id)
    THEN [out |-> BadRequest, msg |-> <<>>, ret |-> <<>>, workoutDays |-> wds]
    ELSE IF id \notin DOMAIN wds
    THEN [out |-> NotFound, msg |-> <<id>>, ret |-> <<>>, workoutDays |-> wds]
    ELSE IF ~wds[id].isActive
    THEN [out |-> Conflict, msg |-> <<id>>, ret |-> <<>>, workoutDays |-> wds]
    ELSE [out |-> Ok, msg |-> <<>>, ret |-> <<wds[id]>>,
          workoutDays |-> [i \in DOMAIN wds \ {id} |-> wds[i]]]

\* variant: the cleared flag is returned but not saved
WorkoutDaysService_remove_NotSaved(wds, id) ==
    IF isNaN(id)
    THEN [out |-> BadRequest, msg |-> <<>>, ret |-> <<>>, workoutDays |-> wds]
    ELSE IF id \notin DOMAIN wds
    THEN [out |-> NotFound, msg |-> <<id>>, ret |-> <<>>, workoutDays |-> wds]
    ELSE IF ~wds[id].isActive
    THEN [out |-> Conflict, msg |-> <<id>>, ret |-> <<>>, workoutDays |-> wds]
    ELSE [out |-> Ok, msg |-> <<>>,
          ret |-> <<Assign(wds[id], [isActive |-> FALSE])>>,
          workoutDays |-> wds]

WorkoutDaysService_remove(wds, id) ==
    IF isNaN(id)
    THEN [out |-> BadRequest, msg |-> <<>>, ret |-> <<>>, workoutDays |-> wds]
    ELSE IF id \notin DOMAIN wds
    THEN [out |-> NotFound, msg |-> <<id>>, ret |-> <<>>, workoutDays |-> wds]
    ELSE IF ~wds[id].isActive
    THEN [out |-> Conflict, msg |-> <<id>>, ret |-> <<>>, workoutDays |-> wds]
    ELSE LET workoutDay == Assign(wds[id], [isActive |-> FALSE])
         IN  [out |-> Ok, msg |-> <<>>, ret |-> <<workoutDay>>,
              workoutDays |-> SaveRow(wds, workoutDay)]

(***************************************************************************)
(* Controllers: the path identifier is parsed, then the service is called  *)
(***************************************************************************)
UsersController_getUserById(us, id) == UsersService_findOne(us, parseInt(id))

WorkoutDaysController_getWorkoutDayById(wds, id) ==
    WorkoutDaysService_findOne(wds, parseInt(id))

\* a value of the query string as it reaches the DTO: a string, or a native
\* boolean when the caller hands the DTO an object; value is the text of a
\* string and the literal of a boolean, type is its typeof
QueryString(text) == [type |-> "string", value |-> text]

QueryBoolean(b) ==
    [type |-> "boolean", value |-> IF b THEN "true" ELSE "false"]

\* variant: the value is converted as JavaScript's Boolean() converts it
SearchWorkoutDayDto_isActive_Truthy(value) ==
    \/ value.type = "boolean" /\ value = QueryBoolean(TRUE)
    \/ value.type = "string" /\ value.value # ""

\* SearchWorkoutDayDto.isActive:
\* @Transform(({ value }) => value === 'true' || value === true)
SearchWorkoutDayDto_isActive(value) ==
    \/ value = QueryString("true")
    \/ value = QueryBoolean(TRUE)

\* SearchUserDto.isActive (iteration with the isActive column): the same
\* @Transform
SearchUserDto_isActive(value) ==
    \/ value = QueryString("true")
    \/ value = QueryBoolean(TRUE)

\* the SearchWorkoutDayDto built from the query: the transform is applied to
\* isActive when the query carries it
SearchWorkoutDayDto(query) ==
    [f \in DOMAIN query |->
        IF f = "isActive" THEN SearchWorkoutDayDto_isActive(query[f])
        ELSE query[f]]

WorkoutDaysController_searchWorkoutDays(wds, query) ==
    WorkoutDaysService_search(wds, SearchWorkoutDayDto(query))

(***************************************************************************)
(* Requests                                                                *)
(***************************************************************************)
EmailP == <<"p", "@", "x">>

EmailPUpper == <<"P", "@", "X">>

EmailPPadded == <<" ", "p", "@", "x", " ">>

EmailQ == <<"q", "@", "x">>

NameAna == <<"A", "n", "a">>

NameAnaPadded == <<" ", "A", "n", "a", " ">>

NameBo == <<"B", "o">>

NamePushPadded == <<" ", "P", "u", "s", "h">>

NameLegs == <<"L", "e", "g", "s">>

TextPadded == <<"t", "x", "t", " ">>

\* path identifiers: the keys that can exist, one that never does, and NaN
UserIds == 1..(MaxUsers + 1) \cup {NaN}

WorkoutDayIds == 1..(MaxWorkoutDays + 1) \cup {NaN}

Days == {1, 2}

\* requests of the combined specification
CreateUserDtos ==
    { [name |-> NameAnaPadded, email |-> EmailPUpper],
      [name |-> NameBo, email |-> EmailQ, role |-> "trainer"] }

UpdateUserDtos ==
    { [status |-> "active"], [status |-> "suspended"] }

\* a request without the optional fields
MinimalWorkoutDayDto(d, u) ==
    [name |-> NamePushPadded, dayOfWeek |-> d, durationMinutes |-> 60,
     userId |-> u]

\* a request with every optional field
FullWorkoutDayDto(d, u) ==
    [name |-> NameLegs, description |-> TextPadded, dayOfWeek |-> d,
     durationMinutes |-> 45, intensityLevel |-> 5, workoutType |-> "Cardio",
     userId |-> u]

\* the requests the state machine issues: the clients of odd user ids omit
\* the optional fields, those of even user ids send them
CreateWorkoutDayDtos ==
    { IF u % 2 = 1 THEN MinimalWorkoutDayDto(d, u) ELSE FullWorkoutDayDto(d, u) :
          d \in Days, u \in 1..(MaxUsers + 1) }

\* further create requests, over which the properties of create range
AllCreateWorkoutDayDtos ==
    { MinimalWorkoutDayDto(d, u) : d \in Days, u \in 1..(MaxUsers + 1) }
    \cup { FullWorkoutDayDto(d, u) : d \in Days, u \in 1..(MaxUsers + 1) }

UpdateWorkoutDayDtos ==
    { [dayOfWeek |-> d] : d \in Days }
    \cup { [isActive |-> b] : b \in BOOLEAN }
    \cup { [dayOfWeek |-> d, isActive |-> TRUE] : d \in Days }

\* further update requests, over which the properties of update range
AllUpdateWorkoutDayDtos ==
    UpdateWorkoutDayDtos
    \cup { [name |-> NamePushPadded], [name |-> <<>>],
           [name |-> NameLegs, description |-> TextPadded,
            durationMinutes |-> 45, intensityLevel |-> 5,
            workoutType |-> "Cardio"],
           [description |-> TextPadded], [durationMinutes |-> 90],
           [intensityLevel |-> 1, workoutType |-> "Mixto"],
           [name |-> NameLegs, dayOfWeek |-> 2, durationMinutes |-> 30],
           [dayOfWeek |-> 0] }

\* requests of the users specification
AllCreateUserDtos ==
    { [name |-> n, email |-> e] :
          n \in {NameAna, NameAnaPadded},
          e \in {EmailP, EmailPUpper, EmailPPadded, EmailQ} }
    \cup
    { [name |-> NameBo, email |-> e, role |-> "trainer", location |-> NameAna] :
          e \in {EmailP, EmailQ} }

AllUpdateUserDtos ==
    { [name |-> NameBo], [name |-> <<>>], [email |-> EmailP],
      [email |-> EmailPUpper], [email |-> EmailQ], [status |-> "active"],
      [status |-> "inactive"], [status |-> "banned"], [status |-> "suspended"],
      [status |-> "pending"],
      [role |-> "admin", bio |-> NameAna],
      [name |-> NameAnaPadded, email |-> EmailPPadded] }

\* search requests; only the filters of a request are in its record
SearchUserDtos ==
    { <<>>, [name |-> <<"a", "N">>], [name |-> <<"_">>], [name |-> <<>>],
      [email |-> EmailQ], [role |-> "trainer"], [status |-> "inactive"],
      [status |-> "active", role |-> "user"], [location |-> <<"n">>],
      [name |-> NameBo, role |-> "admin"] }

SearchWorkoutDayDtos ==
    { <<>>, [name |-> <<"u", "S">>], [name |-> <<"_">>], [dayOfWeek |-> 1],
      [isActive |-> FALSE],
      [isActive |-> TRUE, userId |-> 1], [workoutType |-> "Cardio"],
      [intensityLevel |-> 5, durationMinutes |-> 45] }

\* the values isActive arrives with
IsActiveValues ==
    { QueryString("true"), QueryString("false"), QueryBoolean(TRUE),
      QueryBoolean(FALSE) }

\* search queries: the filters already typed, or isActive as it arrives
SearchWorkoutDayQueries ==
    { dto \in SearchWorkoutDayDtos : "isActive" \notin DOMAIN dto }
    \cup { [isActive |-> v] : v \in IsActiveValues }
    \cup { [isActive |-> v, userId |-> 1] : v \in IsActiveValues }

\* path identifiers as they arrive in the URL
PathIds ==
    { <<"1">>, <<"2">>, <<"9">>, <<"1", "0">>, <<"1", "x">>, <<" ", "2">>,
      <<"a", "b", "c">>, <<"x", "1">>, <<>> }

(***************************************************************************)
(* State machine                                                           *)
(***************************************************************************)
Init ==
    /\ users = <<>>
    /\ workoutDays = <<>>
    /\ requests = <<>>
    /\ now = 0
    /\ userUpdatedAt = <<>>

UsersFindAll ==
    LET r == UsersService_findAll(users)
    IN  /\ users' = r.users
        /\ UNCHANGED <<workoutDays, requests, now, userUpdatedAt>>

UsersSearch(dto) ==
    LET r == UsersService_search(users, dto)
    IN  /\ users' = r.users
        /\ UNCHANGED <<workoutDays, requests, now, userUpdatedAt>>

UsersFindOne(id) ==
    LET r == UsersService_findOne(users, id)
    IN  /\ users' = r.users
        /\ UNCHANGED <<workoutDays, requests, now, userUpdatedAt>>

UsersCreate(dto) ==
    LET r == UsersService_create(users, dto)
    IN  /\ Cardinality(DOMAIN r.users) <= MaxUsers
        /\ users' = r.users
        /\ userUpdatedAt' = SavedUpdatedAt(users, r.users, userUpdatedAt, now)
        /\ UNCHANGED <<workoutDays, requests, now>>

UsersUpdate(id, dto) ==
    LET r == UsersService_update(users, id, dto)
    IN  /\ users' = r.users
        /\ userUpdatedAt' = SavedUpdatedAt(users, r.users, userUpdatedAt, now)
        /\ UNCHANGED <<workoutDays, requests, now>>

\* variant: the WorkoutDays of the removed user are deactivated with it
UsersRemove_Cascades(id) ==
    LET r == UsersService_remove(users, id)
    IN  /\ users' = r.users
        /\ workoutDays' =
              [i \in DOMAIN workoutDays |->
                  IF r.out = Ok /\ workoutDays[i].userId = id
                  THEN [workoutDays[i] EXCEPT !.isActive = FALSE]
                  ELSE workoutDays[i]]
        /\ userUpdatedAt' = SavedUpdatedAt(users, r.users, userUpdatedAt, now)
        /\ UNCHANGED <<requests, now>>

UsersRemove(id) ==
    LET r == UsersService_remove(users, id)
    IN  /\ users' = r.users
        /\ userUpdatedAt' = SavedUpdatedAt(users, r.users, userUpdatedAt, now)
        /\ UNCHANGED <<workoutDays, requests, now>>

WorkoutDaysFindAll ==
    LET r == WorkoutDaysService_findAll(workoutDays)
    IN  /\ workoutDays' = r.workoutDays
        /\ UNCHANGED <<users, requests, now, userUpdatedAt>>

WorkoutDaysFindByUserId(userId) ==
    LET r == WorkoutDaysService_findByUserId(users, workoutDays, userId)
    IN  /\ workoutDays' = r.workoutDays
        /\ UNCHANGED <<users, requests, now, userUpdatedAt>>

WorkoutDaysSearch(query) ==
    LET r == WorkoutDaysController_searchWorkoutDays(workoutDays, query)
    IN  /\ workoutDays' = r.workoutDays
        /\ UNCHANGED <<users, requests, now, userUpdatedAt>>

WorkoutDaysFindOne(id) ==
    LET r == WorkoutDaysService_findOne(workoutDays, id)
    IN  /\ workoutDays' = r.workoutDays
        /\ UNCHANGED <<users, requests, now, userUpdatedAt>>

WorkoutDaysCreate(dto) ==
    LET r == WorkoutDaysService_create(users, workoutDays, dto)
    IN  /\ Cardinality(DOMAIN r.workoutDays) <= MaxWorkoutDays
        /\ workoutDays' = r.workoutDays
        /\ UNCHANGED <<users, requests, now, userUpdatedAt>>

WorkoutDaysUpdate(id, dto) ==
    LET r == WorkoutDaysService_update(workoutDays, id, dto)
    IN  /\ workoutDays' = r.workoutDays
        /\ UNCHANGED <<users, requests, now, userUpdatedAt>>

WorkoutDaysRemove(id) ==
    LET r == WorkoutDaysService_remove(workoutDays, id)
    IN  /\ workoutDays' = r.workoutDays
        /\ UNCHANGED <<users, requests, now, userUpdatedAt>>

Next ==
    \/ UsersFindAll
    \/ \E dto \in SearchUserDtos : UsersSearch(dto)
    \/ WorkoutDaysFindAll
    \/ \E userId \in UserIds : WorkoutDaysFindByUserId(userId)
    \/ \E query \in SearchWorkoutDayQueries : WorkoutDaysSearch(query)
    \/ \E id \in UserIds : UsersFindOne(id)
    \/ \E dto \in CreateUserDtos : UsersCreate(dto)
    \/ \E id \in UserIds, dto \in UpdateUserDtos : UsersUpdate(id, dto)
    \/ \E id \in UserIds : UsersRemove(id)
    \/ \E id \in WorkoutDayIds : WorkoutDaysFindOne(id)
    \/ \E dto \in CreateWorkoutDayDtos : WorkoutDaysCreate(dto)
    \/ \E id \in WorkoutDayIds, dto \in UpdateWorkoutDayDtos :
           WorkoutDaysUpdate(id, dto)
    \/ \E id \in WorkoutDayIds : WorkoutDaysRemove(id)

Spec == Init /\ [][Next]_vars

\* the Users resource alone, with the full range of user requests
NextUsers ==
    \/ UsersFindAll
    \/ \E dto \in SearchUserDtos : UsersSearch(dto)
    \/ \E id \in UserIds : UsersFindOne(id)
    \/ \E dto \in AllCreateUserDtos : UsersCreate(dto)
    \/ \E id \in UserIds, dto \in AllUpdateUserDtos : UsersUpdate(id, dto)
    \/ \E id \in UserIds : UsersRemove(id)

SpecUsers == Init /\ [][NextUsers]_vars

(***************************************************************************)
(* Status changes under a running clock                                    *)
(***************************************************************************)
\* the status changes requested through update
StatusUserDtos == { [status |-> s] : s \in UserStatus }

\* the clock reaches its next reading
Tick ==
    /\ now < MaxTime
    /\ now' = now + 1
    /\ UNCHANGED <<users, workoutDays, requests, userUpdatedAt>>

NextClock ==
    \/ Tick
    \/ \E dto \in CreateUserDtos : UsersCreate(dto)
    \/ \E id \in UserIds, dto \in StatusUserDtos : UsersUpdate(id, dto)
    \/ \E id \in UserIds : UsersRemove(id)

SpecClock == Init /\ [][NextClock]_vars

(***************************************************************************)
(* Create requests, one await at a time                                    *)
(***************************************************************************)
Pending == "Pending"

\* the create requests of the interleaved specification
RaceUserDtos ==
    { [name |-> NameAna, email |-> EmailP],
      [name |-> NameBo, email |-> EmailPUpper] }

RaceWorkoutDayDtos == { MinimalWorkoutDayDto(1, 1) }

\* request k moves to the await pc with outcome out; overlapped records the
\* requests that had passed their own lookup, and not yet saved, when k
\* passed its lookup
Advance(k, pc, out, overlapped) ==
    requests' = [requests EXCEPT ![k] =
                    [@ EXCEPT !.pc = pc, !.out = out,
                              !.overlapped = @ \cup overlapped]]

\* the requests of the same operation that are between lookup and save
AwaitingSave(op) ==
    {j \in DOMAIN requests : requests[j].op = op /\ requests[j].pc = "save"}

\* POST /users arrives: UsersService.create is entered
UsersCreateBegin(dto) ==
    /\ Len(requests) < MaxRequests
    /\ requests' = Append(requests,
                          [op |-> "users.create", dto |-> dto,
                           pc |-> "findOne", out |-> Pending,
                           overlapped |-> {}])
    /\ UNCHANGED <<users, workoutDays, now, userUpdatedAt>>

\* await userRepository.findOne({ where: { email } }) and the test on it
UsersCreateFindOne(k) ==
    /\ requests[k].op = "users.create"
    /\ requests[k].pc = "findOne"
    /\ IF FindUserByEmail(users, requests[k].dto.email) # {}
       THEN Advance(k, "done", Conflict, {})
       ELSE Advance(k, "save", Pending, AwaitingSave("users.create"))
    /\ UNCHANGED <<users, workoutDays, now, userUpdatedAt>>

\* await userRepository.save(user) and the return
UsersCreateSave(k) ==
    /\ requests[k].op = "users.create"
    /\ requests[k].pc = "save"
    /\ LET r == UsersService_create_save(users, requests[k].dto)
       IN  /\ users' = r.users
           /\ Advance(k, "done", r.out, {})
    /\ userUpdatedAt' = SavedUpdatedAt(users, users', userUpdatedAt, now)
    /\ UNCHANGED <<workoutDays, now>>

\* POST /workout-days arrives: WorkoutDaysService.create is entered
WorkoutDaysCreateBegin(dto) ==
    /\ Len(requests) < MaxRequests
    /\ requests' = Append(requests,
                          [op |-> "workoutDays.create", dto |-> dto,
                           pc |-> "validateUserExists", out |-> Pending,
                           overlapped |-> {}])
    /\ UNCHANGED <<users, workoutDays, now, userUpdatedAt>>

\* await this.validateUserExists(userId)
WorkoutDaysCreateValidateUser(k) ==
    /\ requests[k].op = "workoutDays.create"
    /\ requests[k].pc = "validateUserExists"
    /\ IF validateUserExists(users, requests[k].dto.userId)
       THEN Advance(k, "findOne", Pending, {})
       ELSE Advance(k, "done", NotFound, {})
    /\ UNCHANGED <<users, workoutDays, now, userUpdatedAt>>

\* await workoutDayRepository.findOne({ where: { userId, dayOfWeek,
\* isActive: true } }) and the test on it
WorkoutDaysCreateFindOne(k) ==
    /\ requests[k].op = "workoutDays.create"
    /\ requests[k].pc = "findOne"
    /\ IF FindActiveWorkoutDays(workoutDays, requests[k].dto.userId,
                                requests[k].dto.dayOfWeek) # {}
       THEN Advance(k, "done", Conflict, {})
       ELSE Advance(k, "save", Pending, AwaitingSave("workoutDays.create"))
    /\ UNCHANGED <<users, workoutDays, now, userUpdatedAt>>

\* await workoutDayRepository.save(workoutDay) and the return
WorkoutDaysCreateSave(k) ==
    /\ requests[k].op = "workoutDays.create"
    /\ requests[k].pc = "save"
    /\ LET r == WorkoutDaysService_create_save(workoutDays, requests[k].dto)
       IN  /\ workoutDays' = r.workoutDays
           /\ Advance(k, "done", r.out, {})
    /\ UNCHANGED <<users, now, userUpdatedAt>>

NextRace ==
    \/ \E dto \in RaceUserDtos : UsersCreateBegin(dto)
    \/ \E k \in DOMAIN requests : UsersCreateFindOne(k)
    \/ \E k \in DOMAIN requests : UsersCreateSave(k)
    \/ \E dto \in RaceWorkoutDayDtos : WorkoutDaysCreateBegin(dto)
    \/ \E k \in DOMAIN requests : WorkoutDaysCreateValidateUser(k)
    \/ \E k \in DOMAIN requests : WorkoutDaysCreateFindOne(k)
    \/ \E k \in DOMAIN requests : WorkoutDaysCreateSave(k)

SpecRace == Init /\ [][NextRace]_vars

(***************************************************************************)
(* Vocabulary of the properties                                            *)
(***************************************************************************)
\* no upper-case letter
IsLowerCase(s) ==
    \A i \in 1..Len(s) : \A k \in 1..Len(UpperLetters) : s[i] # UpperLetters[k]

\* no leading or trailing white space
IsTrimmed(s) ==
    s = <<>> \/ (s[1] \notin WhiteSpace /\ s[Len(s)] \notin WhiteSpace)

\* same value (or same absence) of field f in two rows
SameField(r1, r2, f) ==
    /\ (f \in DOMAIN r1) = (f \in DOMAIN r2)
    /\ f \in DOMAIN r1 => r1[f] = r2[f]

\* the tables hold the same rows outside the key id
SameElsewhere(t1, t2, id) ==
    /\ DOMAIN t1 \ {id} = DOMAIN t2 \ {id}
    /\ \A j \in DOMAIN t1 \ {id} : t1[j] = t2[j]

(***************************************************************************)
(* C1                                                                      *)
(***************************************************************************)
\* C1: in every reachable state, for each (userId, dayOfWeek) pair at most
\* one stored WorkoutDay has isActive = true.
C1_AtMostOneActivePerUserDay ==
    \A i, j \in DOMAIN workoutDays :
        ( /\ workoutDays[i].isActive
          /\ workoutDays[j].isActive
          /\ workoutDays[i].userId = workoutDays[j].userId
          /\ workoutDays[i].dayOfWeek = workoutDays[j].dayOfWeek ) => i = j

(***************************************************************************)
(* C2                                                                      *)
(***************************************************************************)
\* C2: in every reachable state no two stored User rows, whatever their
\* status, have the same email.
C2_EmailUnique ==
    \A i, j \in DOMAIN users : users[i].email = users[j].email => i = j

\* two users are stored, one of them soft-deleted, and a create whose email
\* differs from a stored one only by case is turned away by the unique index
C2_Witness ==
    /\ Cardinality(DOMAIN users) = 2
    /\ \E i \in DOMAIN users : users[i].status = "inactive"
    /\ \E dto \in AllCreateUserDtos :
           UsersService_create(users, dto).out = QueryFailed

(***************************************************************************)
(* C3                                                                      *)
(***************************************************************************)
\* C3: User create fails with Conflict and stores nothing whenever the
\* supplied email, trimmed and lowercased, is the email of an existing User,
\* whatever that user's status.
C3_CreateConflictUpToCaseAndSpace ==
    \A dto \in AllCreateUserDtos :
        (\E i \in DOMAIN users : users[i].email = trim(toLowerCase(dto.email)))
        => /\ UsersService_create(users, dto).out = Conflict
           /\ UsersService_create(users, dto).users = users

(***************************************************************************)
(* C4                                                                      *)
(***************************************************************************)
\* C4: every successful User create stores exactly one new row, whose email
\* is the input email trimmed and lowercased, whose name is the input name
\* trimmed and whose status is active, leaves the other rows alone and
\* returns that row.
C4_CreateStoresNormalizedRow ==
    \A dto \in AllCreateUserDtos :
        LET r == UsersService_create(users, dto)
        IN  r.out = Ok =>
              \E id \in DOMAIN r.users \ DOMAIN users :
                  /\ DOMAIN r.users = DOMAIN users \cup {id}
                  /\ SameElsewhere(users, r.users, id)
                  /\ r.users[id].id = id
                  /\ r.users[id].email = trim(toLowerCase(dto.email))
                  /\ IsLowerCase(r.users[id].email)
                  /\ IsTrimmed(r.users[id].email)
                  /\ r.users[id].name = trim(dto.name)
                  /\ IsTrimmed(r.users[id].name)
                  /\ r.users[id].status = "active"
                  /\ r.ret = <<mapToResponseDto(r.users[id])>>

\* the only stored row is the one a create with a padded name and an
\* upper-case email leaves in an empty table
C4_Witness ==
    /\ DOMAIN users = {1}
    /\ users[1].name = NameAna
    /\ users[1].email = EmailP
    /\ [name |-> NameAnaPadded, email |-> EmailPUpper] \in AllCreateUserDtos
    /\ UsersService_create(<<>>, [name |-> NameAnaPadded,
                                  email |-> EmailPUpper]).users = users

(***************************************************************************)
(* C5                                                                      *)
(***************************************************************************)
\* an active WorkoutDay is stored for the user and day of the request
DayOccupied(dto) ==
    \E i \in DOMAIN workoutDays :
        /\ workoutDays[i].userId = dto.userId
        /\ workoutDays[i].dayOfWeek = dto.dayOfWeek
        /\ workoutDays[i].isActive

\* the owning user of the request is stored and its status is active
OwnerActive(userId) ==
    userId \in DOMAIN users /\ users[userId].status = "active"

\* the result is a Conflict whose message names the weekday of the request
\* and the table is as before
ConflictNamingDay(r, dto) ==
    /\ r.out = Conflict
    /\ dto.dayOfWeek \in 1..7
    /\ r.msg = DayNames[dto.dayOfWeek]
    /\ r.msg # InvalidDay
    /\ r.workoutDays = workoutDays

\* C5 (as stated): WorkoutDay create fails with Conflict naming the weekday,
\* and stores nothing, whenever an active WorkoutDay with the same userId and
\* dayOfWeek exists; an inactive WorkoutDay on that pair causes no Conflict.
C5_Original ==
    \A dto \in AllCreateWorkoutDayDtos :
        LET r == WorkoutDaysService_create(users, workoutDays, dto)
        IN  /\ DayOccupied(dto) => ConflictNamingDay(r, dto)
            /\ ~DayOccupied(dto) => r.out # Conflict

\* C5 (amended): when the owning user exists and is active, WorkoutDay create
\* fails with Conflict naming the weekday, and stores nothing, whenever an
\* active WorkoutDay with the same userId and dayOfWeek exists (a missing or
\* inactive owner gives NotFound first); an inactive WorkoutDay on that pair
\* causes no Conflict.
C5_CreateConflictOnOccupiedDay ==
    \A dto \in AllCreateWorkoutDayDtos :
        LET r == WorkoutDaysService_create(users, workoutDays, dto)
        IN  /\ (OwnerActive(dto.userId) /\ DayOccupied(dto))
                  => ConflictNamingDay(r, dto)
            /\ ~DayOccupied(dto) => r.out # Conflict

\* an active user owns an active WorkoutDay on one day, which a create is
\* refused for, and only a soft-deleted one on another day, which a create is
\* accepted for
C5_Witness ==
    \E dto1, dto2 \in AllCreateWorkoutDayDtos :
        /\ dto1.userId = dto2.userId
        /\ OwnerActive(dto1.userId)
        /\ DayOccupied(dto1)
        /\ WorkoutDaysService_create(users, workoutDays, dto1).out = Conflict
        /\ ~DayOccupied(dto2)
        /\ \E i \in DOMAIN workoutDays :
               /\ workoutDays[i].userId = dto2.userId
               /\ workoutDays[i].dayOfWeek = dto2.dayOfWeek
               /\ ~workoutDays[i].isActive
        /\ WorkoutDaysService_create(users, workoutDays, dto2).out = Ok

(***************************************************************************)
(* C6                                                                      *)
(***************************************************************************)
\* C6: WorkoutDay create fails with NotFound, and stores nothing, whenever
\* the owning userId refers to no User or to a User that is not active; so a
\* WorkoutDay is only ever created for a User that exists and is active at
\* that moment, and every stored WorkoutDay is owned by a stored User.
C6_CreateNeedsActiveOwner ==
    /\ \A dto \in AllCreateWorkoutDayDtos :
           LET r == WorkoutDaysService_create(users, workoutDays, dto)
           IN  /\ ~OwnerActive(dto.userId)
                     => (r.out = NotFound /\ r.workoutDays = workoutDays)
               /\ r.out = Ok => OwnerActive(dto.userId)
    /\ \A i \in DOMAIN workoutDays : workoutDays[i].userId \in DOMAIN users

\* a WorkoutDay is stored whose owner has since stopped being active, and
\* creates for that owner and for a user that was never stored are refused
C6_Witness ==
    /\ \E i \in DOMAIN workoutDays, dto \in AllCreateWorkoutDayDtos :
           /\ dto.userId = workoutDays[i].userId
           /\ users[dto.userId].status = "suspended"
           /\ ~DayOccupied(dto)
           /\ WorkoutDaysService_create(users, workoutDays, dto).out = NotFound
    /\ \E dto \in AllCreateWorkoutDayDtos :
           /\ dto.userId \notin DOMAIN users
           /\ WorkoutDaysService_create(users, workoutDays, dto).out = NotFound

(***************************************************************************)
(* C7                                                                      *)
(***************************************************************************)
\* C7: User remove on an existing id whose status is not inactive sets the
\* status to inactive and succeeds; on an id whose status is already inactive
\* it fails with Conflict and changes nothing; so a remove directly followed
\* by a remove of the same id yields Conflict on the second call.
C7_UserRemove ==
    \A id \in DOMAIN users :
        LET r == UsersService_remove(users, id)
        IN  /\ users[id].status # "inactive"
                  => /\ r.out = Ok
                     /\ r.users[id].status = "inactive"
                     /\ SameElsewhere(users, r.users, id)
            /\ users[id].status = "inactive"
                  => (r.out = Conflict /\ r.users = users)
            /\ UsersService_remove(r.users, id).out = Conflict

\* one user is soft-deleted and removing it again is a Conflict, while a
\* banned user can still be removed
C7_Witness ==
    \E i, j \in DOMAIN users :
        /\ users[i].status = "inactive"
        /\ UsersService_remove(users, i).out = Conflict
        /\ users[j].status = "banned"
        /\ UsersService_remove(users, j).out = Ok

(***************************************************************************)
(* C8                                                                      *)
(***************************************************************************)
\* C8: WorkoutDay remove on an existing active row sets isActive to false and
\* succeeds; on an already inactive row it fails with Conflict and changes
\* nothing; on a missing id it fails with NotFound; so two consecutive
\* removes of the same id give success, then Conflict.
C8_WorkoutDayRemove ==
    \A id \in WorkoutDayIds \ {NaN} :
        LET r == WorkoutDaysService_remove(workoutDays, id)
        IN  /\ id \notin DOMAIN workoutDays
                  => (r.out = NotFound /\ r.workoutDays = workoutDays)
            /\ (id \in DOMAIN workoutDays /\ workoutDays[id].isActive)
                  => /\ r.out = Ok
                     /\ r.workoutDays[id].isActive = FALSE
                     /\ SameElsewhere(workoutDays, r.workoutDays, id)
                     /\ WorkoutDaysService_remove(r.workoutDays, id).out
                            = Conflict
            /\ (id \in DOMAIN workoutDays /\ ~workoutDays[id].isActive)
                  => (r.out = Conflict /\ r.workoutDays = workoutDays)

\* an active and a soft-deleted WorkoutDay are stored: the first can be
\* removed, removing the second is a Conflict
C8_Witness ==
    \E i, j \in DOMAIN workoutDays :
        /\ workoutDays[i].isActive
        /\ WorkoutDaysService_remove(workoutDays, i).out = Ok
        /\ ~workoutDays[j].isActive
        /\ WorkoutDaysService_remove(workoutDays, j).out = Conflict

(***************************************************************************)
(* C9                                                                      *)
(***************************************************************************)
\* C9: no operation removes a row: an id for which get-by-id succeeds keeps
\* succeeding after every create, update and remove, for Users and for
\* WorkoutDays.
C9_NoPhysicalRemoval ==
    [][ /\ \A id \in UserIds :
               UsersService_findOne(users, id).out = Ok
                   => UsersService_findOne(users', id).out = Ok
        /\ \A id \in WorkoutDayIds :
               WorkoutDaysService_findOne(workoutDays, id).out = Ok
                   => WorkoutDaysService_findOne(workoutDays', id).out = Ok
      ]_vars

\* a soft-deleted User and a soft-deleted WorkoutDay are still returned
C9_Witness ==
    /\ \E id \in DOMAIN users :
           /\ users[id].status = "inactive"
           /\ UsersService_findOne(users, id).out = Ok
    /\ \E id \in DOMAIN workoutDays :
           /\ ~workoutDays[id].isActive
           /\ WorkoutDaysService_findOne(workoutDays, id).out = Ok

(***************************************************************************)
(* C10                                                                     *)
(***************************************************************************)
\* the columns of the row under key id that the request does not supply are
\* the same in both tables, and so are all other rows
OnlySuppliedChanged(t1, t2, id, dto) ==
    /\ DOMAIN t2 = DOMAIN t1
    /\ SameElsewhere(t1, t2, id)
    /\ \A f \in (DOMAIN t1[id] \cup DOMAIN t2[id]) \ DOMAIN dto :
           SameField(t1[id], t2[id], f)

\* C10: a successful partial update (User or WorkoutDay) changes only fields
\* supplied in the request: every other field of the row keeps its value and
\* every other row is unchanged.
C10_UpdateFrame ==
    /\ \A id \in UserIds, dto \in AllUpdateUserDtos :
           LET r == UsersService_update(users, id, dto)
           IN  r.out = Ok => OnlySuppliedChanged(users, r.users, id, dto)
    /\ \A id \in WorkoutDayIds, dto \in AllUpdateWorkoutDayDtos :
           LET r == WorkoutDaysService_update(workoutDays, id, dto)
           IN  r.out = Ok
                 => OnlySuppliedChanged(workoutDays, r.workoutDays, id, dto)

\* a WorkoutDay with a description and a non-default intensity, and a User
\* with a non-default role, are changed by updates that supply neither
C10_Witness ==
    /\ \E id \in DOMAIN workoutDays, dto \in AllUpdateWorkoutDayDtos :
           /\ "description" \in DOMAIN workoutDays[id]
           /\ workoutDays[id].intensityLevel # DefaultIntensityLevel
           /\ DOMAIN dto \cap {"description", "intensityLevel"} = {}
           /\ WorkoutDaysService_update(workoutDays, id, dto).out = Ok
           /\ WorkoutDaysService_update(workoutDays, id, dto).workoutDays
                  # workoutDays
    /\ \E id \in DOMAIN users, dto \in AllUpdateUserDtos :
           /\ users[id].role # UserEntityDefaults.role
           /\ "role" \notin DOMAIN dto
           /\ UsersService_update(users, id, dto).out = Ok
           /\ UsersService_update(users, id, dto).users # users

(***************************************************************************)
(* C11                                                                     *)
(***************************************************************************)
\* the stored rows as the Users endpoints render them
AllUserResponses == {mapToResponseDto(users[i]) : i \in DOMAIN users}

AllWorkoutDayRows == {workoutDays[i] : i \in DOMAIN workoutDays}

\* C11 (as stated): for Users and for WorkoutDays, in every reachable state,
\* search without filters returns the same set of records as list-all.
C11_Original ==
    /\ \A rs \in UsersService_search(users, <<>>).rets,
          ra \in UsersService_findAll(users).rets : Range(rs) = Range(ra)
    /\ \A rs \in WorkoutDaysService_search(workoutDays, <<>>).rets,
          ra \in WorkoutDaysService_findAll(workoutDays).rets :
              Range(rs) = Range(ra)

\* C11 (amended): for Users and for WorkoutDays, in every reachable state,
\* search without filters returns every stored record, active or not, each
\* once, and list-all returns exactly the active records among them.
C11_SearchAllListActive ==
    /\ \A rs \in UsersService_search(users, <<>>).rets,
          ra \in UsersService_findAll(users).rets :
              /\ Range(rs) = AllUserResponses
              /\ Len(rs) = Cardinality(DOMAIN users)
              /\ Range(ra) = {u \in Range(rs) : u.status = "active"}
    /\ \A rs \in WorkoutDaysService_search(workoutDays, <<>>).rets,
          ra \in WorkoutDaysService_findAll(workoutDays).rets :
              /\ Range(rs) = AllWorkoutDayRows
              /\ Len(rs) = Cardinality(DOMAIN workoutDays)
              /\ Range(ra) = {w \in Range(rs) : w.isActive}
    /\ UsersService_search(users, <<>>).rets # {}
    /\ UsersService_findAll(users).rets # {}
    /\ WorkoutDaysService_search(workoutDays, <<>>).rets # {}
    /\ WorkoutDaysService_findAll(workoutDays).rets # {}

\* each table holds an active and a not active row, so that for both
\* resources the unfiltered search returns more than list-all
C11_Witness ==
    /\ \E i, j \in DOMAIN users :
           users[i].status = "active" /\ users[j].status # "active"
    /\ \E i, j \in DOMAIN workoutDays :
           workoutDays[i].isActive /\ ~workoutDays[j].isActive
    /\ \E rs \in UsersService_search(users, <<>>).rets,
          ra \in UsersService_findAll(users).rets : Len(ra) < Len(rs)
    /\ \E rs \in WorkoutDaysService_search(workoutDays, <<>>).rets,
          ra \in WorkoutDaysService_findAll(workoutDays).rets :
              Len(ra) < Len(rs)

(***************************************************************************)
(* C12                                                                     *)
(***************************************************************************)
\* C12: User update fails with Conflict, and changes nothing, whenever the
\* supplied email (as update would store it: trimmed, lower case) is the
\* email of a different stored User; supplying the user's own current email
\* is no Conflict and the update succeeds.
C12_UpdateEmailConflict ==
    \A id \in DOMAIN users, dto \in AllUpdateUserDtos :
        LET r == UsersService_update(users, id, dto)
        IN  TruthyString(dto, "email") =>
              /\ (\E j \in DOMAIN users \ {id} :
                      users[j].email = trim(toLowerCase(dto.email)))
                    => (r.out = Conflict /\ r.users = users)
              /\ dto.email = users[id].email => r.out = Ok

(***************************************************************************)
(* C13                                                                     *)
(***************************************************************************)
\* the update requests that pass UpdateWorkoutDayDto's bounds on dayOfWeek
ValidUpdateWorkoutDayDtos ==
    {dto \in AllUpdateWorkoutDayDtos :
        "dayOfWeek" \in DOMAIN dto => dto.dayOfWeek \in 1..7}

\* the request supplies a dayOfWeek other than the one of the stored row id
MovesDay(id, dto) ==
    "dayOfWeek" \in DOMAIN dto /\ dto.dayOfWeek # workoutDays[id].dayOfWeek

\* another row of the same owner is active on the day the request names
TargetDayTaken(id, dto) ==
    \E j \in DOMAIN workoutDays \ {id} :
        /\ workoutDays[j].userId = workoutDays[id].userId
        /\ workoutDays[j].dayOfWeek = dto.dayOfWeek
        /\ workoutDays[j].isActive

\* C13: WorkoutDay update fails with Conflict exactly when the request
\* supplies a dayOfWeek different from the record's current one and another
\* active WorkoutDay of the same owner is on the target day; the record is
\* then left unchanged.  An update that does not change dayOfWeek never
\* fails with Conflict.
C13_UpdateDayConflict ==
    \A id \in DOMAIN workoutDays, dto \in ValidUpdateWorkoutDayDtos :
        LET r == WorkoutDaysService_update(workoutDays, id, dto)
        IN  /\ r.out = Conflict
                  <=> (MovesDay(id, dto) /\ TargetDayTaken(id, dto))
            /\ r.out = Conflict => r.workoutDays = workoutDays
            /\ ~MovesDay(id, dto) => r.out # Conflict

\* one stored row cannot be moved onto the day of another active row of the
\* same owner, while a request naming the row's own day goes through although
\* that day holds the row itself
C13_Witness ==
    \E id \in DOMAIN workoutDays, dto1, dto2 \in ValidUpdateWorkoutDayDtos :
        /\ MovesDay(id, dto1)
        /\ WorkoutDaysService_update(workoutDays, id, dto1).out = Conflict
        /\ "dayOfWeek" \in DOMAIN dto2
        /\ ~MovesDay(id, dto2)
        /\ workoutDays[id].isActive
        /\ WorkoutDaysService_update(workoutDays, id, dto2).out = Ok

(***************************************************************************)
(* C14                                                                     *)
(***************************************************************************)
\* C14: a WorkoutDay update that reassigns dayOfWeek succeeds only if the
\* owning User exists and is active at that moment.
C14_ReassignNeedsActiveOwner ==
    \A id \in DOMAIN workoutDays, dto \in ValidUpdateWorkoutDayDtos :
        (/\ MovesDay(id, dto)
         /\ WorkoutDaysService_update(workoutDays, id, dto).out = Ok)
        => OwnerActive(workoutDays[id].userId)

(***************************************************************************)
(* C15                                                                     *)
(***************************************************************************)
\* the path identifier is a non-empty run of decimal digits
IsInteger(id) == id # <<>> /\ \A k \in 1..Len(id) : IsDigit(id[k])

\* C15: get-by-id (User and WorkoutDay) returns the record when the id
\* exists, active or not; fails with NotFound, with a message that carries
\* the id, when no record has that id; fails with BadRequest when the path
\* identifier is not a valid integer; and never modifies state.
C15_GetById ==
    \A id \in PathIds :
        LET u == UsersController_getUserById(users, id)
            w == WorkoutDaysController_getWorkoutDayById(workoutDays, id)
            n == DecimalValue(id)
        IN  /\ u.users = users
            /\ w.workoutDays = workoutDays
            /\ ~IsInteger(id) => (u.out = BadRequest /\ w.out = BadRequest)
            /\ (IsInteger(id) /\ n \in DOMAIN users)
                  => (u.out = Ok /\ u.ret = <<mapToResponseDto(users[n])>>)
            /\ (IsInteger(id) /\ n \notin DOMAIN users)
                  => (u.out = NotFound /\ u.msg = <<n>>)
            /\ (IsInteger(id) /\ n \in DOMAIN workoutDays)
                  => (w.out = Ok /\ w.ret = <<workoutDays[n]>>)
            /\ (IsInteger(id) /\ n \notin DOMAIN workoutDays)
                  => (w.out = NotFound /\ w.msg = <<n>>)

(***************************************************************************)
(* C18                                                                     *)
(***************************************************************************)
\* C18: list-by-user fails with NotFound when the user does not exist or is
\* not active; otherwise it returns exactly the WorkoutDays with that userId
\* and isActive = true, each once, ordered by dayOfWeek ascending; it never
\* modifies state.
C18_ListByUser ==
    \A userId \in UserIds :
        LET r == WorkoutDaysService_findByUserId(users, workoutDays, userId)
            mine == {i \in DOMAIN workoutDays :
                        /\ workoutDays[i].userId = userId
                        /\ workoutDays[i].isActive}
        IN  /\ r.workoutDays = workoutDays
            /\ ~OwnerActive(userId) => r.out = NotFound
            /\ OwnerActive(userId) =>
                 /\ r.out = Ok
                 /\ r.rets # {}
                 /\ \A ret \in r.rets :
                        /\ Range(ret) = {workoutDays[i] : i \in mine}
                        /\ Len(ret) = Cardinality(mine)
                        /\ \A k \in 1..(Len(ret) - 1) :
                               ret[k].dayOfWeek <= ret[k + 1].dayOfWeek

\* an active user owns two active WorkoutDays, the later created one on the
\* earlier day, and the list returns them by day; the list of a user that is
\* not stored is refused
C18_Witness ==
    /\ \E userId \in DOMAIN users :
           /\ DOMAIN workoutDays = {1, 2}
           /\ workoutDays[2].dayOfWeek < workoutDays[1].dayOfWeek
           /\ WorkoutDaysService_findByUserId(users, workoutDays, userId).rets
                  = {<<workoutDays[2], workoutDays[1]>>}
    /\ \E userId \in UserIds :
           WorkoutDaysService_findByUserId(users, workoutDays, userId).out
               = NotFound

Contains(s, sub) ==
    \E k \in 0..(Len(s) - Len(sub)) : SubSeq(s, k + 1, k + Len(sub)) = sub

\* the row satisfies every supplied filter: substring, whatever the case, for
\* name, email and location; equality for role and status
Satisfies(user, dto) ==
    /\ \A f \in DOMAIN dto \cap {"name", "email", "location"} :
           /\ f \in DOMAIN user
           /\ Contains(toLowerCase(user[f]), toLowerCase(dto[f]))
    /\ \A f \in DOMAIN dto \cap {"role", "status"} : user[f] = dto[f]

\* C20: User search returns exactly the Users that satisfy every supplied
\* filter (case-insensitive substring match on name, email and location;
\* exact match on role and status), combined with AND; an absent filter
\* constrains nothing, and a search without match returns an empty array
\* and no error.
C20_UserSearch ==
    \A dto \in SearchUserDtos :
        LET r == UsersService_search(users, dto)
        IN  /\ r.out = Ok
            /\ r.rets # {}
            /\ \A ret \in r.rets :
                   Range(ret) = {mapToResponseDto(users[i]) :
                                    i \in {j \in DOMAIN users :
                                              Satisfies(users[j], dto)}}

(***************************************************************************)
(* C16                                                                     *)
(***************************************************************************)
\* requests j and k run the same create operation and j was between its
\* lookup and its save when k made its lookup: both reads precede both writes
Interleaved(j, k) ==
    /\ j # k
    /\ requests[j].op = requests[k].op
    /\ j \in requests[k].overlapped

\* C16: when two User create requests carrying the same email interleave
\* (both uniqueness reads happen before either write), both pass the
\* application check; neither is ever reported as Conflict; only the unique
\* index on email stops the second write, which ends in the storage error,
\* and the email is stored at most once.
C16_RacingUserCreates ==
    /\ \A j, k \in DOMAIN requests :
           ( /\ Interleaved(j, k)
             /\ requests[j].op = "users.create"
             /\ requests[j].dto.email = requests[k].dto.email )
           => /\ requests[k].pc \in {"save", "done"}
              /\ requests[j].out \in {Pending, Ok, QueryFailed}
              /\ requests[k].out \in {Pending, Ok, QueryFailed}
              /\ (requests[j].pc = "done" /\ requests[k].pc = "done")
                    => QueryFailed \in {requests[j].out, requests[k].out}
    /\ \A i, j \in DOMAIN users : users[i].email = users[j].email => i = j

\* two interleaved creates with the same email are over: one stored its row,
\* the other was stopped by the index
C16_Witness ==
    \E j, k \in DOMAIN requests :
        /\ Interleaved(j, k)
        /\ requests[j].op = "users.create"
        /\ requests[j].dto.email = requests[k].dto.email
        /\ requests[j].pc = "done"
        /\ requests[k].pc = "done"
        /\ {requests[j].out, requests[k].out} = {Ok, QueryFailed}
        /\ Cardinality(DOMAIN users) = 1

(***************************************************************************)
(* C17                                                                     *)
(***************************************************************************)
\* C17: when two WorkoutDay create requests for the same (userId, dayOfWeek)
\* interleave (both conflict reads happen before either write), both
\* succeed and two active WorkoutDays are stored on that (user, day) pair;
\* no storage-level constraint stops the second write.
C17_RacingWorkoutDayCreates ==
    \A j, k \in DOMAIN requests :
        ( /\ Interleaved(j, k)
          /\ requests[j].op = "workoutDays.create"
          /\ requests[j].dto.userId = requests[k].dto.userId
          /\ requests[j].dto.dayOfWeek = requests[k].dto.dayOfWeek )
        => /\ requests[j].out \in {Pending, Ok}
           /\ requests[k].out \in {Pending, Ok}
           /\ (requests[j].pc = "done" /\ requests[k].pc = "done")
                 => \E a, b \in DOMAIN workoutDays :
                        /\ a # b
                        /\ \A i \in {a, b} :
                               /\ workoutDays[i].isActive
                               /\ workoutDays[i].userId = requests[j].dto.userId
                               /\ workoutDays[i].dayOfWeek
                                      = requests[j].dto.dayOfWeek

\* two interleaved creates for one user and day have both succeeded and the
\* table holds two active rows on that pair
C17_Witness ==
    \E j, k \in DOMAIN requests :
        /\ Interleaved(j, k)
        /\ requests[j].op = "workoutDays.create"
        /\ requests[j].out = Ok
        /\ requests[k].out = Ok
        /\ DOMAIN workoutDays = {1, 2}
        /\ workoutDays[1].isActive /\ workoutDays[2].isActive
        /\ workoutDays[1].userId = workoutDays[2].userId
        /\ workoutDays[1].dayOfWeek = workoutDays[2].dayOfWeek

(***************************************************************************)
(* C21                                                                     *)
(***************************************************************************)
\* the row satisfies every supplied filter: substring, whatever the case, for
\* name; equality for the other columns
WorkoutDaySatisfies(workoutDay, dto) ==
    /\ "name" \in DOMAIN dto
          => Contains(toLowerCase(workoutDay.name), toLowerCase(dto.name))
    /\ \A f \in DOMAIN dto \ {"name"} : workoutDay[f] = dto[f]

\* C21: WorkoutDay search returns exactly the WorkoutDays that satisfy every
\* supplied filter (substring match on name; exact match on dayOfWeek,
\* durationMinutes, intensityLevel, workoutType, isActive and userId),
\* combined with AND; a supplied isActive = false returns only inactive rows.
C21_WorkoutDaySearch ==
    \A dto \in SearchWorkoutDayDtos :
        LET r == WorkoutDaysService_search(workoutDays, dto)
        IN  /\ r.out = Ok
            /\ r.rets # {}
            /\ \A ret \in r.rets :
                   Range(ret) = {workoutDays[i] :
                                    i \in {j \in DOMAIN workoutDays :
                                              WorkoutDaySatisfies(
                                                  workoutDays[j], dto)}}

(***************************************************************************)
(* C22                                                                     *)
(***************************************************************************)
\* C22: a successful WorkoutDay create stores one new row with isActive
\* true, with intensityLevel 3 when the request omits it and workoutType
\* 'Fuerza' when the request omits it, and with the supplied values
\* otherwise.
C22_CreateDefaults ==
    \A dto \in AllCreateWorkoutDayDtos :
        LET r == WorkoutDaysService_create(users, workoutDays, dto)
        IN  r.out = Ok =>
              \E id \in DOMAIN r.workoutDays \ DOMAIN workoutDays :
                  LET row == r.workoutDays[id]
                  IN  /\ DOMAIN r.workoutDays = DOMAIN workoutDays \cup {id}
                      /\ row.isActive = TRUE
                      /\ row.intensityLevel
                            = IF "intensityLevel" \in DOMAIN dto
                              THEN dto.intensityLevel ELSE 3
                      /\ row.workoutType
                            = IF "workoutType" \in DOMAIN dto
                              THEN dto.workoutType ELSE "Fuerza"
                      /\ row.dayOfWeek = dto.dayOfWeek
                      /\ row.durationMinutes = dto.durationMinutes
                      /\ row.userId = dto.userId

\* the table holds a row created without the optional fields and a row
\* created with them: the first carries the defaults, the second the
\* supplied intensity and type
C22_Witness ==
    /\ DOMAIN workoutDays = {1, 2}
    /\ workoutDays[1].intensityLevel = 3
    /\ workoutDays[1].workoutType = "Fuerza"
    /\ workoutDays[2].intensityLevel = 5
    /\ workoutDays[2].workoutType = "Cardio"
    /\ workoutDays[1].isActive /\ workoutDays[2].isActive
    /\ \E d \in Days :
           /\ WorkoutDaysService_create(users, <<>>,
                  MinimalWorkoutDayDto(d, 1)).workoutDays = <<workoutDays[1]>>
           /\ WorkoutDaysService_create(users, <<workoutDays[1]>>,
                  FullWorkoutDayDto(d, 2)).workoutDays = workoutDays

(***************************************************************************)
(* C23                                                                     *)
(***************************************************************************)
\* the day numbers the helpers are applied to: the weekdays, both
\* neighbours of the range, negatives (NaN among them) and larger values
DayNumbers == (-3)..10

Weekdays ==
    <<"Lunes", "Martes", "Miercoles", "Jueves", "Viernes", "Sabado",
      "Domingo">>

\* C23: the weekday-name helper maps each day number 1..7 to a distinct
\* weekday name in order (1 = Monday ... 7 = Sunday) and every other value
\* (0, negative, above 7) to the invalid-day sentinel; the entity helper and
\* the service helper agree on every input, also on every stored row.
C23_DayName ==
    /\ \A n \in DayNumbers :
           /\ getDayName(n) = WorkoutDayEntity_getDayName([dayOfWeek |-> n])
           /\ n \in 1..7 => getDayName(n) = Weekdays[n]
           /\ n \notin 1..7 => getDayName(n) = "Dia invalido"
    /\ \A m, n \in 1..7 : getDayName(m) = getDayName(n) => m = n
    /\ \A n \in 1..7 : getDayName(n) # "Dia invalido"
    /\ \A i \in DOMAIN workoutDays :
           /\ WorkoutDayEntity_getDayName(workoutDays[i])
                 = getDayName(workoutDays[i].dayOfWeek)
           /\ WorkoutDayEntity_getDayName(workoutDays[i])
                 = Weekdays[workoutDays[i].dayOfWeek]

\* rows on two different days are stored, their helpers name Monday and
\* Tuesday, and a create on the first day is refused naming Monday
C23_Witness ==
    /\ DOMAIN workoutDays = {1, 2}
    /\ WorkoutDayEntity_getDayName(workoutDays[1]) = "Lunes"
    /\ WorkoutDayEntity_getDayName(workoutDays[2]) = "Martes"
    /\ \E dto \in AllCreateWorkoutDayDtos :
           LET r == WorkoutDaysService_create(users, workoutDays, dto)
           IN  r.out = Conflict /\ r.msg = "Lunes"

(***************************************************************************)
(* C24                                                                     *)
(***************************************************************************)
\* the status changes user id can undergo in the current state, each with
\* the status and the updatedAt it leaves: the entity's four methods, and
\* the successful updates of the status and remove of the service
StatusChanges(id) ==
    LET entity == { UserEntity_activate(users[id], now),
                    UserEntity_deactivate(users[id], now),
                    UserEntity_suspend(users[id], now),
                    UserEntity_ban(users[id], now) }
        service == { UsersService_update(users, id, dto) :
                         dto \in StatusUserDtos }
                   \cup { UsersService_remove(users, id) }
    IN  { [status |-> e.user.status, updatedAt |-> e.updatedAt] :
              e \in entity }
        \cup
        { [status |-> r.users[id].status,
           updatedAt |-> SavedUpdatedAt(users, r.users,
                                        userUpdatedAt, now)[id]] :
              r \in {x \in service : x.out = Ok} }

\* C24 as stated: every change of a User's status strictly advances that
\* user's update timestamp.
C24_Original ==
    \A id \in DOMAIN users :
        \A c \in StatusChanges(id) :
            c.status # users[id].status => c.updatedAt > userUpdatedAt[id]

\* C24: every change of a User's status (activate, deactivate, suspend, ban,
\* the status written by update and the soft delete of remove) sets that
\* user's update timestamp to the clock's reading at the change, so the
\* timestamp never decreases; it advances strictly exactly when the clock
\* has advanced since the user's previous write.
C24_StatusChangeRefreshes ==
    /\ DOMAIN userUpdatedAt = DOMAIN users
    /\ \A id \in DOMAIN users :
           /\ userUpdatedAt[id] <= now
           /\ \A c \in StatusChanges(id) :
                  c.status # users[id].status
                     => /\ c.updatedAt = now
                        /\ c.updatedAt >= userUpdatedAt[id]
                        /\ c.updatedAt > userUpdatedAt[id]
                              <=> userUpdatedAt[id] < now

\* a user was soft-deleted after the clock had advanced, and the clock has
\* advanced again since: the column carries the time of the removal
C24_Witness ==
    \E id \in DOMAIN users :
        /\ users[id].status = "inactive"
        /\ userUpdatedAt[id] = 1
        /\ now = 2
        /\ \E c \in StatusChanges(id) :
               c.status = "active" /\ c.updatedAt = 2

(***************************************************************************)
(* C25                                                                     *)
(***************************************************************************)
\* no two rows of the table carry the same id
UniqueIds(table) ==
    \A i, j \in DOMAIN table : table[i].id = table[j].id => i = j

\* the step takes no row out of the table and changes no row's id, and the
\* rows it adds carry ids no row had before
IdsKept(table, after) ==
    /\ \A i \in DOMAIN table :
           i \in DOMAIN after /\ after[i].id = table[i].id
    /\ \A i \in DOMAIN after \ DOMAIN table :
           after[i].id \notin {table[j].id : j \in DOMAIN table}

\* C25: identifiers are unique and immutable: no two Users and no two
\* WorkoutDays share an id, every successful create adds one row whose id no
\* existing row has, and no create, update or remove, successful or not,
\* takes out a row or changes the id of an existing row; the in-memory
\* service's max + 1 is an unused id as well.
C25_IdsUniqueImmutable ==
    /\ UniqueIds(users)
    /\ UniqueIds(workoutDays)
    /\ \A dto \in AllCreateUserDtos :
           LET r == UsersService_create(users, dto)
           IN  /\ IdsKept(users, r.users)
               /\ UniqueIds(r.users)
               /\ r.out = Ok => Cardinality(DOMAIN r.users)
                                   = Cardinality(DOMAIN users) + 1
    /\ \A dto \in AllCreateWorkoutDayDtos :
           LET r == WorkoutDaysService_create(users, workoutDays, dto)
           IN  /\ IdsKept(workoutDays, r.workoutDays)
               /\ UniqueIds(r.workoutDays)
               /\ r.out = Ok => Cardinality(DOMAIN r.workoutDays)
                                   = Cardinality(DOMAIN workoutDays) + 1
    /\ \A id \in UserIds :
           /\ IdsKept(users, UsersService_remove(users, id).users)
           /\ \A dto \in AllUpdateUserDtos :
                  IdsKept(users, UsersService_update(users, id, dto).users)
    /\ \A id \in WorkoutDayIds :
           /\ IdsKept(workoutDays,
                      WorkoutDaysService_remove(workoutDays, id).workoutDays)
           /\ \A dto \in AllUpdateWorkoutDayDtos :
                  IdsKept(workoutDays,
                          WorkoutDaysService_update(workoutDays, id,
                                                    dto).workoutDays)
    /\ \A n \in 0..MaxUsers :
           LET ids == InMemoryUserIds \cup {k + 4 : k \in 1..n}
           IN  InMemoryNewId(ids) \notin ids

\* both tables hold two rows under their own ids, after an update and a
\* remove of each resource
C25_Witness ==
    /\ DOMAIN users = {1, 2}
    /\ users[1].id = 1 /\ users[2].id = 2
    /\ users[1].status = "suspended" /\ users[2].status = "inactive"
    /\ DOMAIN workoutDays = {1, 2}
    /\ workoutDays[1].id = 1 /\ workoutDays[2].id = 2
    /\ ~workoutDays[1].isActive
    /\ workoutDays[2].dayOfWeek = 2

(***************************************************************************)
(* C26                                                                     *)
(***************************************************************************)
\* the boolean a value of isActive stands for
Meant(value) ==
    IF value.type = "boolean" THEN value = QueryBoolean(TRUE)
    ELSE value.value = "true"

\* C26: in search requests the isActive filter accepts the strings "true"
\* and "false" as well as native booleans: "true" and true become true,
\* "false" and false become false, and the WorkoutDay search filters by the
\* coerced value.
C26_IsActiveCoercion ==
    /\ SearchWorkoutDayDto_isActive(QueryString("true")) = TRUE
    /\ SearchWorkoutDayDto_isActive(QueryBoolean(TRUE)) = TRUE
    /\ SearchWorkoutDayDto_isActive(QueryString("false")) = FALSE
    /\ SearchWorkoutDayDto_isActive(QueryBoolean(FALSE)) = FALSE
    /\ \A v \in IsActiveValues :
           /\ SearchUserDto_isActive(v) = Meant(v)
           /\ SearchWorkoutDayDto([isActive |-> v]).isActive = Meant(v)
           /\ LET r == WorkoutDaysController_searchWorkoutDays(
                           workoutDays, [isActive |-> v])
              IN  /\ r.out = Ok
                  /\ r.rets # {}
                  /\ \A ret \in r.rets :
                         Range(ret) = {workoutDays[i] :
                                          i \in {j \in DOMAIN workoutDays :
                                                    workoutDays[j].isActive
                                                       = Meant(v)}}

\* an active and an inactive row are stored: isActive=false in the query
\* string finds the inactive one alone, isActive=true the active one alone
C26_Witness ==
    /\ DOMAIN workoutDays = {1, 2}
    /\ ~workoutDays[1].isActive
    /\ workoutDays[2].isActive
    /\ WorkoutDaysController_searchWorkoutDays(
           workoutDays, [isActive |-> QueryString("false")]).rets
          = {<<workoutDays[1]>>}
    /\ WorkoutDaysController_searchWorkoutDays(
           workoutDays, [isActive |-> QueryString("true")]).rets
          = {<<workoutDays[2]>>}

(***************************************************************************)
(* C27                                                                     *)
(***************************************************************************)
Errors == {BadRequest, NotFound, Conflict}

\* the call r on the users table ended in an error and left the table, and
\* its updatedAt column, as they were
UsersKept(r) ==
    r.out \in Errors
       => /\ r.users = users
          /\ SavedUpdatedAt(users, r.users, userUpdatedAt, now) = userUpdatedAt

WorkoutDaysKept(r) == r.out \in Errors => r.workoutDays = workoutDays

\* C27: every operation that ends in BadRequest, NotFound or Conflict, on
\* either resource, leaves the stored Users and WorkoutDays, every field of
\* every row included, as they were before the call.
C27_ErrorsChangeNothing ==
    /\ \A dto \in AllCreateUserDtos : UsersKept(UsersService_create(users, dto))
    /\ \A id \in UserIds :
           /\ UsersKept(UsersService_findOne(users, id))
           /\ UsersKept(UsersService_remove(users, id))
           /\ \A dto \in AllUpdateUserDtos :
                  UsersKept(UsersService_update(users, id, dto))
           /\ WorkoutDaysKept(
                  WorkoutDaysService_findByUserId(users, workoutDays, id))
    /\ \A id \in PathIds :
           /\ UsersKept(UsersController_getUserById(users, id))
           /\ WorkoutDaysKept(
                  WorkoutDaysController_getWorkoutDayById(workoutDays, id))
    /\ \A dto \in AllCreateWorkoutDayDtos :
           WorkoutDaysKept(WorkoutDaysService_create(users, workoutDays, dto))
    /\ \A id \in WorkoutDayIds :
           /\ WorkoutDaysKept(WorkoutDaysService_findOne(workoutDays, id))
           /\ WorkoutDaysKept(WorkoutDaysService_remove(workoutDays, id))
           /\ \A dto \in AllUpdateWorkoutDayDtos :
                  WorkoutDaysKept(
                      WorkoutDaysService_update(workoutDays, id, dto))

\* a state in which calls of every error kind exist on both resources: a
\* removed user and a removed WorkoutDay (Conflict on remove), an occupied
\* day (Conflict on create and on update), unknown and invalid ids
C27_Witness ==
    /\ DOMAIN users = {1, 2}
    /\ DOMAIN workoutDays = {1, 2}
    /\ UsersService_remove(users, 2).out = Conflict
    /\ WorkoutDaysService_remove(workoutDays, 1).out = Conflict
    /\ \E dto \in AllCreateWorkoutDayDtos :
           WorkoutDaysService_create(users, workoutDays, dto).out = Conflict
    /\ \E dto \in AllCreateWorkoutDayDtos :
           WorkoutDaysService_create(users, workoutDays, dto).out = NotFound
    /\ \E dto \in AllUpdateWorkoutDayDtos :
           /\ DOMAIN dto # {"dayOfWeek"}
           /\ WorkoutDaysService_update(workoutDays, 1, dto).out = Conflict
    /\ \E dto \in AllCreateUserDtos :
           UsersService_create(users, dto).out = Conflict
    /\ UsersService_update(users, 3, [status |-> "active"]).out = NotFound
    /\ UsersService_remove(users, NaN).out = BadRequest

(***************************************************************************)
(* C28                                                                     *)
(***************************************************************************)
\* another user's stored email is the email the request carries
EmailTaken(id, dto) ==
    /\ "email" \in DOMAIN dto
    /\ \E i \in DOMAIN users \ {id} : users[i].email = dto.email

\* C28: errors are checked in a fixed order and the first failing check
\* decides: update and remove answer BadRequest for an invalid id whatever
\* else holds, NotFound for an absent record whatever the request carries,
\* and Conflict (email collision, day conflict, already inactive) only for a
\* valid id of a stored record; WorkoutDay create answers NotFound for a
\* missing or inactive owner even when the day is occupied, and Conflict
\* for an occupied day of an active owner.
C28_ErrorOrder ==
    /\ \A id \in UserIds, dto \in AllUpdateUserDtos :
           LET u == UsersService_update(users, id, dto).out
               d == UsersService_remove(users, id).out
           IN  /\ isNaN(id) => u = BadRequest /\ d = BadRequest
               /\ (~isNaN(id) /\ id \notin DOMAIN users)
                     => u = NotFound /\ d = NotFound
               /\ (id \in DOMAIN users /\ EmailTaken(id, dto)) => u = Conflict
               /\ (id \in DOMAIN users /\ users[id].status = "inactive")
                     => d = Conflict
    /\ \A id \in WorkoutDayIds, dto \in ValidUpdateWorkoutDayDtos :
           LET u == WorkoutDaysService_update(workoutDays, id, dto).out
               d == WorkoutDaysService_remove(workoutDays, id).out
           IN  /\ isNaN(id) => u = BadRequest /\ d = BadRequest
               /\ (~isNaN(id) /\ id \notin DOMAIN workoutDays)
                     => u = NotFound /\ d = NotFound
               /\ (id \in DOMAIN workoutDays /\ MovesDay(id, dto)
                      /\ TargetDayTaken(id, dto)) => u = Conflict
               /\ (id \in DOMAIN workoutDays /\ ~workoutDays[id].isActive)
                     => d = Conflict
    /\ \A dto \in AllCreateWorkoutDayDtos :
           LET c == WorkoutDaysService_create(users, workoutDays, dto).out
           IN  /\ ~OwnerActive(dto.userId) => c = NotFound
               /\ (OwnerActive(dto.userId) /\ DayOccupied(dto)) => c = Conflict

\* the owner of an active WorkoutDay has been removed: a create on the
\* occupied day fails both checks and answers NotFound; and an absent user
\* id comes with an email that a stored user has
C28_Witness ==
    /\ \E dto \in AllCreateWorkoutDayDtos :
           /\ ~OwnerActive(dto.userId)
           /\ dto.userId \in DOMAIN users
           /\ DayOccupied(dto)
           /\ WorkoutDaysService_create(users, workoutDays, dto).out = NotFound
    /\ \E dto \in AllUpdateUserDtos :
           /\ EmailTaken(MaxUsers + 1, dto)
           /\ UsersService_update(users, MaxUsers + 1, dto).out = NotFound

(***************************************************************************)
(* C29                                                                     *)
(***************************************************************************)
\* C29: a soft-deleted record is reactivated through update: for a User that
\* is inactive (after remove), update(id, {status: active}) succeeds, makes
\* it active and touches no other row, and remove(id) then succeeds again;
\* the same for a WorkoutDay with update(id, {isActive: true}).
C29_ReactivationByUpdate ==
    /\ \A id \in DOMAIN users :
           LET removed == IF users[id].status = "inactive" THEN users
                          ELSE UsersService_remove(users, id).users
               r == UsersService_update(removed, id, [status |-> "active"])
               d == UsersService_remove(r.users, id)
           IN  /\ removed[id].status = "inactive"
               /\ r.out = Ok
               /\ r.users[id].status = "active"
               /\ SameElsewhere(removed, r.users, id)
               /\ d.out = Ok
               /\ d.users[id].status = "inactive"
    /\ \A id \in DOMAIN workoutDays :
           LET removed == IF ~workoutDays[id].isActive THEN workoutDays
                          ELSE WorkoutDaysService_remove(workoutDays,
                                                         id).workoutDays
               r == WorkoutDaysService_update(removed, id, [isActive |-> TRUE])
               d == WorkoutDaysService_remove(r.workoutDays, id)
           IN  /\ ~removed[id].isActive
               /\ r.out = Ok
               /\ r.workoutDays[id].isActive
               /\ SameElsewhere(removed, r.workoutDays, id)
               /\ d.out = Ok
               /\ ~d.workoutDays[id].isActive

\* a User and a WorkoutDay are stored soft-deleted, a second remove of each
\* is a Conflict, and the update reactivates each
C29_Witness ==
    /\ \E id \in DOMAIN users :
           /\ users[id].status = "inactive"
           /\ UsersService_remove(users, id).out = Conflict
           /\ UsersService_update(users, id,
                                  [status |-> "active"]).users[id].status
                 = "active"
    /\ \E id \in DOMAIN workoutDays :
           /\ ~workoutDays[id].isActive
           /\ WorkoutDaysService_remove(workoutDays, id).out = Conflict
           /\ WorkoutDaysService_update(workoutDays, id,
                  [isActive |-> TRUE]).workoutDays[id].isActive

(***************************************************************************)
(* C30                                                                     *)
(***************************************************************************)
\* the active WorkoutDays of user id
ActiveWorkoutDaysOf(id) ==
    {workoutDays[i] : i \in {j \in DOMAIN workoutDays :
                                /\ workoutDays[j].userId = id
                                /\ workoutDays[j].isActive}}

\* C30: removing a User changes only that User's status: the step creates,
\* deactivates and modifies no WorkoutDay, so the removed user's active
\* WorkoutDays stay active and are still returned by WorkoutDay list-all
\* and search, while list-by-user for that user now fails with NotFound.
C30_UserRemoveFrame ==
    [][ \A id \in DOMAIN users :
           ( /\ users[id].status # "inactive"
             /\ users' = UsersService_remove(users, id).users )
           => /\ workoutDays' = workoutDays
              /\ users'[id] = [users[id] EXCEPT !.status = "inactive"]
              /\ SameElsewhere(users, users', id)
              /\ \A ret \in WorkoutDaysService_findAll(workoutDays').rets :
                     ActiveWorkoutDaysOf(id) \subseteq Range(ret)
              /\ \A ret \in WorkoutDaysService_search(workoutDays', <<>>).rets :
                     ActiveWorkoutDaysOf(id) \subseteq Range(ret)
              /\ \A ret \in WorkoutDaysService_search(
                                workoutDays', [userId |-> id]).rets :
                     ActiveWorkoutDaysOf(id) \subseteq Range(ret)
              /\ WorkoutDaysService_findByUserId(users', workoutDays', id).out
                    = NotFound
      ]_vars

\* a removed user owns an active WorkoutDay: list-all and search return it,
\* list-by-user answers NotFound
C30_Witness ==
    \E id \in DOMAIN users :
        /\ users[id].status = "inactive"
        /\ ActiveWorkoutDaysOf(id) # {}
        /\ \A ret \in WorkoutDaysService_findAll(workoutDays).rets :
               ActiveWorkoutDaysOf(id) \subseteq Range(ret)
        /\ \A ret \in WorkoutDaysService_search(workoutDays,
                                                [userId |-> id]).rets :
               Range(ret) # {}
        /\ WorkoutDaysService_findByUserId(users, workoutDays, id).out
              = NotFound

====
